---- MODULE Spec2Model ----
(***************************************************************************)
(* Kardex stock ledger: the local ledger held by the App component, the    *)
(* aggregations derived from it (InventoryList.inventory, App.stats,       *)
(* App.criticalItemsList), the status classification and the spreadsheet   *)
(* reconcilers of services/excel.ts.                                       *)
(*                                                                         *)
(* Conventions.  A date 'YYYY-MM-DD' is a day number (day 0 is an          *)
(* arbitrary base date), so string comparison of ISO dates is <= on day    *)
(* numbers and new Date(date).getTime() is day * DayMs.  A timestamp is a  *)
(* number of milliseconds since midnight of day 0.  An optional number     *)
(* that is absent (undefined / null) is the value Undefined.  Quantities   *)
(* are integers (the form's number input has the default step of 1).       *)
(***************************************************************************)
EXTENDS Integers, Sequences, FiniteSets, TLC

VARIABLES
    transactions,   \* App: useState<Transaction[]>, the local ledger
    syncStatus,     \* App: 'SYNCED' | 'SYNCING' | 'OFFLINE'
    dateFilter,     \* App: '7d' | '15d' | '30d' | '90d' | 'ALL'
    isLoading,      \* App: TRUE until the mount effect has loaded the ledger
    now,            \* the clock, in ms (Date.now(), and the store's created_at)
    nextId,         \* the next fresh id (crypto.randomUUID / the store's id)
    item,           \* an aggregated item handed to getStatusBadge
    badge,          \* the badge getStatusBadge returned for item
    listed,         \* the rows a list shows for item under its filterStatus
    sheet,          \* the rows XLSX.utils.sheet_to_json read from the file
    imported,       \* what the reconcilers resolved for sheet
    store,          \* the rows of the transactions table of the store
    bulk,           \* the bulk inventory import in progress, if any
    inflight,       \* the calls of the handlers that have not settled yet
    deleted,        \* the ids whose deletion the store has confirmed
    loader,         \* the loadTransactions call in progress, if any
    diario          \* the logbook: its stored lists and its forms

vars == <<transactions, syncStatus, dateFilter, isLoading, now, nextId,
          item, badge, listed, sheet, imported, store, bulk, inflight,
          deleted, loader, diario>>

ledgerVars == <<transactions, syncStatus, dateFilter, isLoading, now, nextId>>
badgeVars == <<item, badge, listed>>
sheetVars == <<sheet, imported>>
callVars == <<inflight, deleted, loader>>
storageVars == <<store, bulk, inflight, deleted, loader>>

-----------------------------------------------------------------------------
(* Bounds of the model *)

MaxTx == 3          \* records ever created in one behaviour
MaxTicks == 2       \* half days the clock may advance

-----------------------------------------------------------------------------
(* JavaScript values *)

Undefined == 0 - 1

Truthy(x) == x # Undefined /\ x # 0

OrElse(x, d) == IF Truthy(x) THEN x ELSE d

DayMs == 86400000

HalfDayMs == DayMs \div 2

\* new Date('YYYY-MM-DD').getTime()
DateMs(date) == date * DayMs

\* new Date(ms).toISOString().split('T')[0]
DayOf(ms) == ms \div DayMs

Max(a, b) == IF a >= b THEN a ELSE b

-----------------------------------------------------------------------------
(* Operation kinds *)

MOVIMENTACAO == 1
CONTAGEM == 2

\* categories.ts, first version: !categoryId || categoryId !== CONTAGEM
operationAffectsStock(categoryId) ==
    (~Truthy(categoryId)) \/ categoryId # CONTAGEM

\* categories.ts, second version: lookup in OPERATION_TYPES, default true
operationAffectsStockLookup(typeId) ==
    IF ~Truthy(typeId) THEN TRUE
    ELSE IF typeId = 1 THEN TRUE
    ELSE IF typeId = 2 THEN FALSE
    ELSE TRUE

\* categories.ts, third version: categoryId === MOVIMENTACAO
operationAffectsStockStrict(categoryId) == categoryId = MOVIMENTACAO

-----------------------------------------------------------------------------
(* InventoryList.tsx: the per-code aggregation *)

\* the entry created on first sight of a code (InventoryList.tsx 34-45)
newEntry(t) ==
    [code |-> t.code, name |-> t.name, entries |-> 0, exits |-> 0,
     balance |-> 0, lastDate |-> t.date,
     min_stock |-> OrElse(t.min_stock, 0), contagens |-> 0,
     lastContagem |-> <<>>]

\* updateRecent that copies min_stock whether or not the record carries one
updateRecentOverwrites(e, t) ==
    IF t.timestamp > DateMs(e.lastDate)
    THEN [e EXCEPT !.name = t.name,
                   !.lastDate = t.date,
                   !.min_stock = OrElse(t.min_stock, 0)]
    ELSE e

\* "Update to most recent values" (InventoryList.tsx 47-52)
updateRecent(e, t) ==
    IF t.timestamp > DateMs(e.lastDate)
    THEN [e EXCEPT !.name = t.name,
                   !.lastDate = t.date,
                   !.min_stock = IF Truthy(t.min_stock) THEN t.min_stock ELSE @]
    ELSE e

\* applyQuantity without the Contagem branch: a count is summed like a movement
applyQuantityCountsSummed(e, t) ==
    IF t.type = "ENTRADA"
    THEN [e EXCEPT !.entries = @ + t.quantity, !.balance = @ + t.quantity,
                   !.contagens = IF t.category_id = 2 THEN @ + 1 ELSE @]
    ELSE [e EXCEPT !.exits = @ + t.quantity, !.balance = @ - t.quantity,
                   !.contagens = IF t.category_id = 2 THEN @ + 1 ELSE @]

\* applyQuantity with the balance clamped at 0 on an exit
applyQuantityClamped(e, t) ==
    IF t.category_id = 2
    THEN [e EXCEPT !.contagens = @ + 1]
    ELSE IF t.type = "ENTRADA"
         THEN [e EXCEPT !.entries = @ + t.quantity, !.balance = @ + t.quantity]
         ELSE [e EXCEPT !.exits = @ + t.quantity,
                        !.balance = Max(@ - t.quantity, 0)]

\* the Contagem / Movimentacao branch (InventoryList.tsx 54-72)
applyQuantity(e, t) ==
    IF t.category_id = 2
    THEN [e EXCEPT !.contagens = @ + 1,
                   !.lastContagem =
                       IF @ = <<>> \/ t.timestamp > DateMs(@[1].date)
                       THEN <<[quantity |-> t.quantity, date |-> t.date]>>
                       ELSE @]
    ELSE IF t.type = "ENTRADA"
         THEN [e EXCEPT !.entries = @ + t.quantity, !.balance = @ + t.quantity]
         ELSE [e EXCEPT !.exits = @ + t.quantity, !.balance = @ - t.quantity]

\* the body of transactions.forEach (InventoryList.tsx 33-73)
inventoryStep(map, t) ==
    LET m1 == IF t.code \in DOMAIN map THEN map
              ELSE map @@ (t.code :> newEntry(t))
    IN [m1 EXCEPT ![t.code] = applyQuantity(updateRecent(@, t), t)]

NoEntries == [c \in {} |-> {}]

RECURSIVE inventoryFold(_, _)
inventoryFold(txs, k) ==
    IF k = 0 THEN NoEntries
    ELSE inventoryStep(inventoryFold(txs, k - 1), txs[k])

\* InventoryList.inventory, as a map from code to entry
inventory(txs) == inventoryFold(txs, Len(txs))

\* localeCompare on the codes of the model
CodeOrder == <<"A", "B">>

SortByCode(codes) == SelectSeq(CodeOrder, LAMBDA c : c \in codes)

\* InventoryList.criticalCount (InventoryList.tsx 78-83)
criticalCount(txs) ==
    LET inv == inventory(txs)
    IN Cardinality({c \in DOMAIN inv :
           inv[c].balance < 0
           \/ (inv[c].min_stock > 0 /\ inv[c].balance <= inv[c].min_stock)})

-----------------------------------------------------------------------------
(* The status badge *)

\* getStatusBadge with the threshold test before the sign test
getStatusBadgeThresholdFirst(it) ==
    IF it.min_stock > 0 /\ it.balance <= it.min_stock THEN "Critico"
    ELSE IF it.balance < 0 THEN "Negativo"
    ELSE "OK"

\* InventoryList.getStatusBadge (InventoryList.tsx 103-111): the badge's text
getStatusBadge(it) ==
    IF it.balance < 0 THEN "Negativo"
    ELSE IF it.min_stock > 0 /\ it.balance <= it.min_stock THEN "Critico"
    ELSE "OK"

\* StockBalanceList.getStatusBadge (StockBalanceList.tsx 89-93): the badge's
\* colour
getStatusBadgeColor(it) ==
    IF it.balance < 0 THEN "text-red-700"
    ELSE IF it.min_stock > 0 /\ it.balance <= it.min_stock THEN "text-amber-700"
    ELSE "text-emerald-700"

-----------------------------------------------------------------------------
(* App.tsx: the dashboard statistics *)

\* the body of transactions.forEach (App.tsx 148-167)
stockByCodeStep(map, t) ==
    LET affectsStock == (~Truthy(t.category_id)) \/ t.category_id # 2
        m1 == IF t.code \in DOMAIN map THEN map
              ELSE map @@ (t.code :> [code |-> t.code, name |-> t.name,
                                      balance |-> 0,
                                      min_stock |-> OrElse(t.min_stock, 0)])
        e1 == m1[t.code]
        e2 == IF affectsStock
              THEN IF t.type = "ENTRADA"
                   THEN [e1 EXCEPT !.balance = @ + t.quantity]
                   ELSE [e1 EXCEPT !.balance = @ - t.quantity]
              ELSE e1
        e3 == IF Truthy(t.min_stock) /\ t.min_stock > 0
              THEN [e2 EXCEPT !.min_stock = t.min_stock]
              ELSE e2
    IN [m1 EXCEPT ![t.code] = e3]

RECURSIVE stockByCodeFold(_, _)
stockByCodeFold(txs, k) ==
    IF k = 0 THEN NoEntries
    ELSE stockByCodeStep(stockByCodeFold(txs, k - 1), txs[k])

stockByCode(txs) == stockByCodeFold(txs, Len(txs))

DateFilters == {"7d", "15d", "30d", "90d", "ALL"}

\* parseInt(dateFilter)
parseInt(f) ==
    CASE f = "7d" -> 7 [] f = "15d" -> 15 [] f = "30d" -> 30 [] f = "90d" -> 90

\* minDateStr when dateFilter is not 'ALL' (App.tsx 127-136): setDate moves
\* the calendar day back by `days` and keeps the time of day
minDateStr(f, nowMs) == DayOf(nowMs) - parseInt(f)

\* filteredTransactions that leaves out the records dated minDateStr
filteredTransactionsStrict(txs, f, nowMs) ==
    SelectSeq(txs, LAMBDA t :
        IF f = "ALL" THEN TRUE ELSE t.date > minDateStr(f, nowMs))

\* filteredTransactions (App.tsx 139-142); minDateStr is '' exactly when
\* dateFilter is 'ALL'
filteredTransactions(txs, f, nowMs) ==
    SelectSeq(txs, LAMBDA t :
        IF f = "ALL" THEN TRUE ELSE t.date >= minDateStr(f, nowMs))

\* the stock of the dashboard built from the records of the window
stockSourceWindowed(txs, f, nowMs) == filteredTransactions(txs, f, nowMs)

\* the transactions the stock of the dashboard is built from (App.tsx 144-148)
stockSource(txs, f, nowMs) == txs

Count(seq, P(_)) == Len(SelectSeq(seq, P))

\* the stats memo (App.tsx 124-188)
stats(txs, f, nowMs) ==
    LET filtered == filteredTransactions(txs, f, nowMs)
        stock == stockByCode(stockSource(txs, f, nowMs))
        isMovement(t) == (~Truthy(t.category_id)) \/ t.category_id # 2
    IN [totalStockCount |->
            Cardinality({c \in DOMAIN stock : stock[c].balance > 0}),
        totalTransactions |-> Len(filtered),
        entriesToday |->
            Count(filtered, LAMBDA t : t.type = "ENTRADA" /\ isMovement(t)),
        exitsToday |->
            Count(filtered, LAMBDA t : t.type = "SAIDA" /\ isMovement(t)),
        criticalItems |->
            Cardinality({c \in DOMAIN stock :
                stock[c].min_stock > 0
                /\ stock[c].balance <= stock[c].min_stock})]

\* the criticalItemsList memo (App.tsx 190-217)
criticalItemsList(txs) ==
    LET stock == stockByCode(txs)
        crit == {c \in DOMAIN stock :
                    stock[c].min_stock > 0
                    /\ stock[c].balance <= stock[c].min_stock}
        sorted == SortByCode(crit)
    IN [i \in 1..Len(sorted) |-> stock[sorted[i]]]

-----------------------------------------------------------------------------
(* services/storage: the shapes that cross the storage boundary *)

\* what the form, or a caller of saveTransaction, supplies
TxInputs(codes, types, qtys, cats, mins, dates, names) ==
    [code : codes, type : types, quantity : qtys, category_id : cats,
     min_stock : mins, date : dates, name : names]

\* loadTransactions: the transform of a stored row (storage 68-82); the
\* result has no min_stock key
fromRow(row) ==
    [id |-> row.id, date |-> row.date, code |-> row.code, name |-> row.name,
     type |-> row.type, quantity |-> row.quantity,
     timestamp |-> row.created_at,
     category_id |-> OrElse(row.category_id, Undefined),
     min_stock |-> Undefined]

\* saveTransaction: the row the insert creates (storage 95-111)
\* (code.toUpperCase() leaves the code as it is: the form and the
\* reconcilers hand over codes already in upper case)
insertedRow(tx, id, createdAt) ==
    [id |-> id, date |-> tx.date, code |-> tx.code, name |-> tx.name,
     type |-> tx.type, quantity |-> tx.quantity,
     category_id |-> OrElse(tx.category_id, Undefined),
     created_at |-> createdAt]

\* saveTransaction (storage 90-137): the saved record, <<>> for null
saveTransaction(tx, ok, id, createdAt) ==
    IF ok THEN <<fromRow(insertedRow(tx, id, createdAt))>> ELSE <<>>

\* the rows found in the store at mount: the i-th newest was created i ms
\* before now; ids are fresh
storedRows(contents, id0, nowMs) ==
    [i \in 1..Len(contents) |->
        insertedRow(contents[i], id0 + (Len(contents) - i), nowMs - i)]

SeqsUpTo(S, n) == UNION {[1..k -> S] : k \in 0..n}

\* the numbers of a set, in increasing order
SortByIndex(S) ==
    [k \in 1..Cardinality(S) |->
        CHOOSE j \in S : Cardinality({x \in S : x < j}) = k - 1]

-----------------------------------------------------------------------------
(* App.tsx: the handlers *)

StartMs == DayMs + HalfDayMs

\* the mount effect (App.tsx 52-76): the ledger becomes what the store holds
loadData(contents) ==
    /\ isLoading
    /\ nextId + Len(contents) <= MaxTx + 1
    /\ LET rows == storedRows(contents, nextId, now)
       IN transactions' = [i \in 1..Len(rows) |-> fromRow(rows[i])]
    /\ syncStatus' = "SYNCED"
    /\ isLoading' = FALSE
    /\ nextId' = nextId + Len(contents)
    /\ UNCHANGED <<dateFilter, now>>

\* handleAddTransaction (App.tsx 219-240)
handleAddTransaction(newTx, ok) ==
    /\ ~isLoading
    /\ nextId <= MaxTx
    /\ LET saved == saveTransaction(newTx, ok, nextId, now)
       IN IF saved # <<>>
          THEN /\ transactions' = saved \o transactions
               /\ syncStatus' = "SYNCED"
          ELSE /\ transactions' =
                     <<[id |-> nextId, date |-> newTx.date,
                        code |-> newTx.code, name |-> newTx.name,
                        type |-> newTx.type, quantity |-> newTx.quantity,
                        category_id |-> newTx.category_id,
                        min_stock |-> newTx.min_stock,
                        timestamp |-> now]>> \o transactions
               /\ syncStatus' = "OFFLINE"
    /\ nextId' = nextId + 1
    /\ now' = now + 1
    /\ UNCHANGED <<dateFilter, isLoading>>

\* handleDelete (App.tsx 260-271)
handleDelete(id, ok) ==
    /\ ~isLoading
    /\ \E i \in 1..Len(transactions) : transactions[i].id = id
    /\ IF ok
       THEN /\ transactions' = SelectSeq(transactions, LAMBDA t : t.id # id)
            /\ syncStatus' = "SYNCED"
       ELSE /\ transactions' = transactions
            /\ syncStatus' = "OFFLINE"
    /\ UNCHANGED <<dateFilter, isLoading, now, nextId>>

\* StatsCards onFilterChange -> setDateFilter (App.tsx 37)
setDateFilter(f) ==
    /\ ~isLoading
    /\ f # dateFilter
    /\ dateFilter' = f
    /\ UNCHANGED <<transactions, syncStatus, isLoading, now, nextId>>

\* time passes
Tick ==
    /\ now + HalfDayMs <= StartMs + MaxTicks * HalfDayMs
    /\ now' = now + HalfDayMs
    /\ UNCHANGED <<transactions, syncStatus, dateFilter, isLoading, nextId>>

InitLedger ==
    /\ transactions = <<>>
    /\ syncStatus = "SYNCED"
    /\ dateFilter = "ALL"
    /\ isLoading = TRUE
    /\ now = StartMs
    /\ nextId = 1

\* no badge rendered yet
NoBadge == [text |-> "none", color |-> "none"]

\* no list rendered yet
NoList == [list |-> "none", filterStatus |-> "ALL", rows |-> <<>>]

\* no bulk inventory import started yet
NoBulk ==
    [pc |-> "idle", items |-> <<>>, validItems |-> <<>>, i |-> 0,
     pending |-> {}, submitted |-> <<>>, results |-> <<>>,
     newTransactions |-> <<>>, alert |-> Undefined,
     importResult |-> Undefined]

\* no loadTransactions call started yet
NoLoader ==
    [pc |-> "idle", page |-> 0, allData |-> <<>>, snapshot |-> <<>>,
     result |-> <<>>, quiet |-> TRUE]

\* the logbook with nothing stored and its forms reset (app.js 34-41,
\* 605-611, 751-757); the id field of a form is '' for a new record
NoDiario ==
    [notas |-> <<>>, ordens |-> <<>>, notaId |-> <<>>, ordemId |-> <<>>,
     toast |-> [about |-> "", text |-> ""], generated |-> 0]

\* an empty store, and no call to it in progress
InitStorage ==
    /\ store = <<>>
    /\ bulk = NoBulk
    /\ inflight = {}
    /\ deleted = {}
    /\ loader = NoLoader
    /\ diario = NoDiario

\* no file reconciled yet
NoImport == [by |-> "none", settled |-> "none", records |-> <<>>,
             processedRows |-> 0, skippedRows |-> 0]

InitIdle ==
    /\ InitLedger
    /\ item = [balance |-> 0, min_stock |-> 0]
    /\ badge = NoBadge
    /\ listed = NoList
    /\ sheet = <<>>
    /\ imported = NoImport
    /\ InitStorage

-----------------------------------------------------------------------------
(* The ledger with records that differ in code, direction, quantity and    *)
(* operation kind                                                          *)

Codes == {"A", "B"}
Types == {"ENTRADA", "SAIDA"}
Quantities == {1, 2}

\* MovementForm.handleSubmit builds formData (MovementForm 233-244): a count
\* is always stored as an ENTRADA
formData(f) ==
    [f EXCEPT !.type = IF f.category_id = 2 THEN "ENTRADA" ELSE f.type]

\* rows found in the store: imported movements (no category) and counts
BalanceStored ==
    {formData(f) : f \in TxInputs(Codes, Types, Quantities, {Undefined, 2},
                                  {Undefined}, {1}, {"n"})}

BalanceInputs ==
    {formData(f) : f \in TxInputs(Codes, Types, Quantities, {1, 2},
                                  {Undefined}, {1}, {"n"})}

NextBalance ==
    \/ /\ isLoading
       /\ \E contents \in SeqsUpTo(BalanceStored, MaxTx) : loadData(contents)
       /\ UNCHANGED <<badgeVars, sheetVars, diario, storageVars>>
    \/ \E newTx \in BalanceInputs, ok \in BOOLEAN :
          handleAddTransaction(newTx, ok) /\ UNCHANGED <<badgeVars, sheetVars, diario, storageVars>>

SpecBalance == InitIdle /\ [][NextBalance]_vars

-----------------------------------------------------------------------------
(* Reference sums over a ledger, independent of the aggregators' folds *)

RECURSIVE SumQuantity(_, _)
SumQuantity(txs, I) ==
    IF I = {} THEN 0
    ELSE LET i == CHOOSE j \in I : TRUE
         IN txs[i].quantity + SumQuantity(txs, I \ {i})

RecordsOf(txs, c) == {i \in 1..Len(txs) : txs[i].code = c}

MovementsOf(txs, c, type) ==
    {i \in RecordsOf(txs, c) : txs[i].category_id # 2 /\ txs[i].type = type}

CountsOf(txs, c) == {i \in RecordsOf(txs, c) : txs[i].category_id = 2}

Permuted(txs, p) == [i \in 1..Len(txs) |-> txs[p[i]]]

\* the permutations of 1..n, for every length a ledger can have
OrdersByLen == [n \in 0..(MaxTx + 1) |-> Permutations(1..n)]

Orders(txs) == OrdersByLen[Len(txs)]

\* C1: for every code, the aggregated balance is the sum of the quantities of
\* its IN movements minus the sum of the quantities of its OUT movements, in
\* the inventory list and in the dashboard alike; totalIn and totalOut are
\* those two sums; COUNT records (category_id = 2) add to none of them and a
\* negative balance is reported as it is.
C1_BalanceIsInMinusOut ==
    LET inv == inventory(transactions)
        stock == stockByCode(transactions)
    IN \A c \in Codes :
          LET in == SumQuantity(transactions,
                                MovementsOf(transactions, c, "ENTRADA"))
              out == SumQuantity(transactions,
                                 MovementsOf(transactions, c, "SAIDA"))
          IN IF RecordsOf(transactions, c) = {}
             THEN c \notin DOMAIN inv /\ c \notin DOMAIN stock
             ELSE /\ c \in DOMAIN inv /\ c \in DOMAIN stock
                  /\ inv[c].entries = in
                  /\ inv[c].exits = out
                  /\ inv[c].balance = in - out
                  /\ stock[c].balance = in - out

\* a code with a COUNT record and a negative balance has been aggregated
C1_Witness ==
    \E c \in DOMAIN inventory(transactions) :
        /\ CountsOf(transactions, c) # {}
        /\ inventory(transactions)[c].balance < 0
        /\ inventory(transactions)[c].entries > 0

\* the totals of an aggregation, per code
Totals(inv) ==
    [c \in DOMAIN inv |->
        [entries |-> inv[c].entries, exits |-> inv[c].exits,
         balance |-> inv[c].balance, contagens |-> inv[c].contagens]]

\* C7: every permutation of the ledger aggregates to the same totalIn,
\* totalOut, balance and countEvents for every code, and balance =
\* totalIn - totalOut for every code of every result.
C7_OrderIndependent ==
    \A base \in {Totals(inventory(transactions))} :
        \A p \in Orders(transactions) :
            \A tot \in {Totals(inventory(Permuted(transactions, p)))} :
                /\ tot = base
                /\ \A c \in DOMAIN tot :
                      tot[c].balance = tot[c].entries - tot[c].exits

\* three records of one code, an entry, an exit and a count, with the exit
\* before the entry in the ledger
C7_Witness ==
    /\ Len(transactions) = 3
    /\ \E c \in DOMAIN inventory(transactions) :
          /\ inventory(transactions)[c].entries > 0
          /\ inventory(transactions)[c].exits > inventory(transactions)[c].entries
          /\ inventory(transactions)[c].contagens = 1
    /\ transactions[1].type = "SAIDA"

\* C2: a record without an operation kind is a movement for every path that
\* decides whether a record affects stock: each operationAffectsStock is true
\* for an absent category_id and false only for CONTAGEM (2).
C2_AbsentIsMovement ==
    \A i \in 1..Len(transactions) :
        LET c == transactions[i].category_id
        IN /\ operationAffectsStock(c) = (c # CONTAGEM)
           /\ operationAffectsStockLookup(c) = (c # CONTAGEM)
           /\ operationAffectsStockStrict(c) = (c # CONTAGEM)

-----------------------------------------------------------------------------
(* The status badge of an aggregated item *)

MaxBalance == 10
MaxMinStock == 10

InitBadge ==
    /\ InitLedger
    /\ item \in [balance : (0 - MaxBalance)..MaxBalance,
                 min_stock : 0..MaxMinStock]
    /\ badge = NoBadge
    /\ listed = NoList
    /\ sheet = <<>>
    /\ imported = NoImport
    /\ InitStorage

\* a row of the list is rendered: both lists compute the badge of the item
renderBadge ==
    /\ badge = NoBadge
    /\ badge' = [text |-> getStatusBadge(item),
                 color |-> getStatusBadgeColor(item)]
    /\ UNCHANGED <<item, listed, sheetVars, diario, ledgerVars, storageVars>>

NextBadge == renderBadge

SpecBadge == InitBadge /\ [][NextBadge]_vars

\* C3: the badge is exactly one of NEGATIVE (balance < 0, whatever minStock
\* is), CRITICAL (balance >= 0, minStock > 0 and balance <= minStock) and OK
\* (everything else), for every balance and every minStock >= 0; balance -1
\* with minStock 10 is NEGATIVE.
C3_Classification ==
    badge # NoBadge =>
        LET neg == item.balance < 0
            crit == item.balance >= 0 /\ item.min_stock > 0
                    /\ item.balance <= item.min_stock
        IN /\ badge.text \in {"Negativo", "Critico", "OK"}
           /\ (badge.text = "Negativo") <=> neg
           /\ (badge.text = "Critico") <=> crit
           /\ (badge.text = "OK") <=> (~neg /\ ~crit)
           /\ (badge.color = "text-red-700") <=> neg
           /\ (badge.color = "text-amber-700") <=> crit
           /\ (badge.color = "text-emerald-700") <=> (~neg /\ ~crit)

\* the badge of balance -1 with minStock 10 has been rendered, as NEGATIVE
C3_Witness ==
    /\ badge # NoBadge
    /\ item.balance = 0 - 1
    /\ item.min_stock = 10
    /\ badge.text = "Negativo"

-----------------------------------------------------------------------------
(* The ledger with records that differ in code, minimum stock and date *)

\* the day of StartMs, and a day after every instant of the model
Today == DayOf(StartMs)
FutureDay == Today + 2

StickyInputs ==
    TxInputs(Codes, {"ENTRADA"}, {1}, {1}, {Undefined, 5}, {Today, FutureDay},
             {"n"})

NextSticky ==
    \/ /\ isLoading
       /\ loadData(<<>>)
       /\ UNCHANGED <<badgeVars, sheetVars, diario, storageVars>>
    \/ \E newTx \in StickyInputs, ok \in BOOLEAN :
          handleAddTransaction(newTx, ok) /\ UNCHANGED <<badgeVars, sheetVars, diario, storageVars>>

SpecSticky == InitIdle /\ [][NextSticky]_vars

\* the records in createdAt order, oldest first
ByCreatedAt(txs) ==
    Permuted(txs, CHOOSE p \in Orders(txs) :
        \A i, j \in 1..Len(txs) :
            i < j => txs[p[i]].timestamp <= txs[p[j]].timestamp)

Prefix(txs, k) == SubSeq(txs, 1, k)

\* C6: in every iteration order, once the entry of a code has a positive
\* minStock, processing a later record of the code that lacks minStock
\* (undefined or 0) leaves the entry's minStock unchanged, in the inventory
\* list and in the dashboard; and when the records are iterated in createdAt
\* order and only the first record of a code carries a minStock, that is the
\* code's final minStock.
C6_StickyMinStock ==
    /\ \A p \in Orders(transactions) :
          \A txs \in {Permuted(transactions, p)} :
              \A k \in 1..Len(txs) :
                  LET t == txs[k]
                      invBefore == inventory(Prefix(txs, k - 1))
                      invAfter == inventory(Prefix(txs, k))
                      stockBefore == stockByCode(Prefix(txs, k - 1))
                      stockAfter == stockByCode(Prefix(txs, k))
                  IN (t.code \in DOMAIN invBefore /\ ~Truthy(t.min_stock)) =>
                        /\ invBefore[t.code].min_stock > 0 =>
                              invAfter[t.code].min_stock
                                  = invBefore[t.code].min_stock
                        /\ stockBefore[t.code].min_stock > 0 =>
                              stockAfter[t.code].min_stock
                                  = stockBefore[t.code].min_stock
    /\ \A txs \in {ByCreatedAt(transactions)} :
          \A c \in Codes :
              LET idx == RecordsOf(txs, c)
                  first == CHOOSE i \in idx : \A j \in idx : i <= j
              IN (/\ idx # {}
                  /\ Truthy(txs[first].min_stock)
                  /\ \A j \in idx \ {first} : ~Truthy(txs[j].min_stock)) =>
                     /\ inventory(txs)[c].min_stock = txs[first].min_stock
                     /\ stockByCode(txs)[c].min_stock = txs[first].min_stock

\* the ledger's newest record of a code carries minStock 5 and an older record
\* of the code, which the list processes after it and takes for more recent,
\* carries none: the code's minStock is still 5
C6_Witness ==
    /\ Len(transactions) >= 2
    /\ transactions[1].code = transactions[2].code
    /\ transactions[1].min_stock = 5
    /\ ~Truthy(transactions[2].min_stock)
    /\ transactions[2].timestamp > DateMs(transactions[1].date)
    /\ inventory(transactions)[transactions[1].code].min_stock = 5

-----------------------------------------------------------------------------
(* The ledger with records that differ in direction, name, minimum stock,  *)
(* date and day of creation                                                *)

DisplayStored ==
    TxInputs({"A"}, Types, {1}, {Undefined}, {Undefined}, {Today}, {"n1"})

DisplayInputs ==
    TxInputs({"A"}, Types, {1}, {1}, {Undefined, 2}, {Today, FutureDay},
             {"n1", "n2"})

NextDisplay ==
    \/ /\ isLoading
       /\ \E contents \in SeqsUpTo(DisplayStored, 1) : loadData(contents)
       /\ UNCHANGED <<badgeVars, sheetVars, diario, storageVars>>
    \/ \E newTx \in DisplayInputs, ok \in BOOLEAN :
          handleAddTransaction(newTx, ok) /\ UNCHANGED <<badgeVars, sheetVars, diario, storageVars>>
    \/ \E i \in 1..Len(transactions), ok \in BOOLEAN :
          handleDelete(transactions[i].id, ok)
          /\ UNCHANGED <<badgeVars, sheetVars, diario, storageVars>>
    \/ Tick /\ UNCHANGED <<badgeVars, sheetVars, diario, storageVars>>

SpecDisplay == InitIdle /\ [][NextDisplay]_vars

\* the codes whose aggregate the badge shows as CRITICAL or NEGATIVE
Alerted(agg) ==
    {c \in DOMAIN agg : getStatusBadge(agg[c]) \in {"Critico", "Negativo"}}

\* C4: the critical-items statistic is the number of codes classified
\* CRITICAL or NEGATIVE, in the dashboard (stats.criticalItems) and in the
\* inventory list (criticalCount) alike, so a code with a negative balance
\* and no threshold is counted.
C4_CriticalCount ==
    /\ stats(transactions, dateFilter, now).criticalItems
          = Cardinality(Alerted(stockByCode(transactions)))
    /\ criticalCount(transactions)
          = Cardinality(Alerted(inventory(transactions)))

\* the index of the record of greatest createdAt among the records I
Newest(txs, I) ==
    CHOOSE i \in I : \A j \in I : txs[j].timestamp <= txs[i].timestamp

WithMinStock(txs, c) ==
    {i \in RecordsOf(txs, c) : Truthy(txs[i].min_stock) /\ txs[i].min_stock > 0}

\* C5: in every iteration order, a code's aggregated name is that of its
\* record of greatest createdAt and its minStock that of its record of
\* greatest createdAt among those carrying a positive minStock, whatever the
\* records' dates are.
C5_NewestWins ==
    \A p \in Orders(transactions) :
        \A txs \in {Permuted(transactions, p)} :
            \A c \in DOMAIN inventory(txs) :
                /\ inventory(txs)[c].name
                      = txs[Newest(txs, RecordsOf(txs, c))].name
                /\ stockByCode(txs)[c].name
                      = txs[Newest(txs, RecordsOf(txs, c))].name
                /\ WithMinStock(txs, c) # {} =>
                      /\ inventory(txs)[c].min_stock
                            = txs[Newest(txs, WithMinStock(txs, c))].min_stock
                      /\ stockByCode(txs)[c].min_stock
                            = txs[Newest(txs, WithMinStock(txs, c))].min_stock

\* C5 for the ledger as the App holds it (newest record first) and the
\* inventory list alone
C5_NewestWinsInLedgerOrder ==
    \A c \in DOMAIN inventory(transactions) :
        inventory(transactions)[c].name
            = transactions[Newest(transactions, RecordsOf(transactions, c))].name

-----------------------------------------------------------------------------
(* The dashboard under the date filter *)

\* records dated on both sides of the 7-day threshold, with and without a
\* minimum stock
WindowInputs ==
    TxInputs({"A"}, Types, {1}, {1}, {Undefined, 2}, {Today - 8, Today},
             {"n"})

NextWindow ==
    \/ /\ isLoading
       /\ loadData(<<>>)
       /\ UNCHANGED <<badgeVars, sheetVars, diario, storageVars>>
    \/ \E newTx \in WindowInputs, ok \in BOOLEAN :
          handleAddTransaction(newTx, ok) /\ UNCHANGED <<badgeVars, sheetVars, diario, storageVars>>
    \/ \E f \in DateFilters :
          setDateFilter(f) /\ UNCHANGED <<badgeVars, sheetVars, diario, storageVars>>

SpecWindow == InitIdle /\ [][NextWindow]_vars

CriticalCodes(stock) ==
    {c \in DOMAIN stock :
        stock[c].min_stock > 0 /\ stock[c].balance <= stock[c].min_stock}

\* C8: for a fixed ledger the balances, the products-in-stock count, the
\* critical-items count and the critical-items list are the same under every
\* date filter (those of the full history).
C8_WindowInvariant ==
    \A f \in DateFilters :
        \A stock \in {stockByCode(stockSource(transactions, f, now))} :
            /\ stock = stockByCode(transactions)
            /\ stats(transactions, f, now).totalStockCount
                  = stats(transactions, "ALL", now).totalStockCount
            /\ stats(transactions, f, now).criticalItems
                  = stats(transactions, "ALL", now).criticalItems
            /\ stats(transactions, f, now).criticalItems
                  = Len(criticalItemsList(transactions))
            /\ \A i \in 1..Len(criticalItemsList(transactions)) :
                  criticalItemsList(transactions)[i].code
                      \in CriticalCodes(stock)

\* the 7-day filter is selected, a record lies outside the window and the
\* code is critical
C8_Witness ==
    /\ dateFilter = "7d"
    /\ Len(filteredTransactions(transactions, dateFilter, now))
          < Len(transactions)
    /\ Len(filteredTransactions(transactions, dateFilter, now)) > 0
    /\ stats(transactions, dateFilter, now).criticalItems = 1
    /\ stats(transactions, dateFilter, now).totalStockCount = 1

\* records dated around the 7-day and the 90-day thresholds, today and after
\* today
StatsDates == {Today - 91, Today - 90, Today - 8, Today - 7, Today, Today + 1}

StatsInputs ==
    TxInputs({"A"}, Types, {1}, {1}, {Undefined}, StatsDates, {"n"})

NextStats ==
    \/ /\ isLoading
       /\ loadData(<<>>)
       /\ UNCHANGED <<badgeVars, sheetVars, diario, storageVars>>
    \/ \E newTx \in StatsInputs, ok \in BOOLEAN :
          handleAddTransaction(newTx, ok) /\ UNCHANGED <<badgeVars, sheetVars, diario, storageVars>>
    \/ \E f \in DateFilters :
          setDateFilter(f) /\ UNCHANGED <<badgeVars, sheetVars, diario, storageVars>>

SpecStats == InitIdle /\ [][NextStats]_vars

InWindow(t, from, to) == from <= t.date /\ t.date <= to

\* C9 as claimed: under window N the windowed statistics count exactly the
\* records dated in [today - N, today]; under ALL they count every record.
C9_ClosedWindow ==
    LET today == DayOf(now)
        counted == stats(transactions, dateFilter, now).totalTransactions
    IN IF dateFilter = "ALL" THEN counted = Len(transactions)
       ELSE counted = Count(transactions, LAMBDA t :
                InWindow(t, today - parseInt(dateFilter), today))

\* C9 as amended: under window N the windowed statistics count exactly the
\* records dated today - N or later, records dated after today included;
\* under ALL they count every record.
C9_OpenWindow ==
    LET today == DayOf(now)
        st == stats(transactions, dateFilter, now)
        inWindow(t) == dateFilter = "ALL"
                       \/ t.date >= today - parseInt(dateFilter)
    IN /\ st.totalTransactions = Count(transactions, inWindow)
       /\ st.entriesToday = Count(transactions, LAMBDA t :
              inWindow(t) /\ t.type = "ENTRADA" /\ t.category_id # 2)
       /\ st.exitsToday = Count(transactions, LAMBDA t :
              inWindow(t) /\ t.type = "SAIDA" /\ t.category_id # 2)

\* under the 7-day filter the ledger holds a record dated today - 8, one dated
\* today - 7 and one dated after today, and two records are counted
C9_Witness ==
    /\ dateFilter = "7d"
    /\ \E i, j, k \in 1..Len(transactions) :
          /\ transactions[i].date = DayOf(now) - 8
          /\ transactions[j].date = DayOf(now) - 7
          /\ transactions[k].date = DayOf(now) + 1
    /\ stats(transactions, dateFilter, now).totalTransactions = 2

-----------------------------------------------------------------------------
(* The spreadsheet reconcilers.  A string is the sequence of its           *)
(* characters.  A cell of a row read by XLSX.utils.sheet_to_json is a      *)
(* string, a number (held as its decimal rendering, which is what          *)
(* String(cell) returns) or absent.  A row is a function from the column   *)
(* headers of the sheet to cells.                                          *)

MaxRows == 2        \* rows of a sheet the user wrote

LowerCase == <<"a", "b", "c", "d", "e", "f", "g", "h", "i", "j", "k", "l", "m",
               "n", "o", "p", "q", "r", "s", "t", "u", "v", "w", "x", "y", "z">>

UpperCase == <<"A", "B", "C", "D", "E", "F", "G", "H", "I", "J", "K", "L", "M",
               "N", "O", "P", "Q", "R", "S", "T", "U", "V", "W", "X", "Y", "Z">>

WhiteSpace == {" ", "\t"}

\* String.prototype.toUpperCase
toUpperCase(s) ==
    [i \in 1..Len(s) |->
        IF \E k \in 1..Len(LowerCase) : LowerCase[k] = s[i]
        THEN UpperCase[CHOOSE k \in 1..Len(LowerCase) : LowerCase[k] = s[i]]
        ELSE s[i]]

\* String.prototype.trim
trim(s) ==
    LET solid == {i \in 1..Len(s) : s[i] \notin WhiteSpace}
    IN IF solid = {} THEN <<>>
       ELSE SubSeq(s, CHOOSE i \in solid : \A j \in solid : i <= j,
                      CHOOSE i \in solid : \A j \in solid : i >= j)

\* String.prototype.startsWith
startsWith(s, prefix) ==
    Len(s) >= Len(prefix) /\ SubSeq(s, 1, Len(prefix)) = prefix

\* String.prototype.includes
includes(s, part) ==
    \E i \in 0..(Len(s) - Len(part)) : SubSeq(s, i + 1, i + Len(part)) = part

NoCell == [t |-> "undefined", v |-> <<>>]
StringCell(s) == [t |-> "string", v |-> s]
NumberCell(digits) == [t |-> "number", v |-> digits]

\* !!cell: the empty string, the number 0 and an absent cell are falsy
TruthyCell(cell) ==
    CASE cell.t = "undefined" -> FALSE
      [] cell.t = "string" -> cell.v # <<>>
      [] cell.t = "number" -> cell.v # <<"0">>

\* String(cell)
String(cell) ==
    IF cell.t = "undefined"
    THEN <<"u", "n", "d", "e", "f", "i", "n", "e", "d">>
    ELSE cell.v

\* row[key]
Cell(row, key) == IF key \in DOMAIN row THEN row[key] ELSE NoCell

\* row[k1] || row[k2] || ... : the first truthy cell, else the last operand
FirstTruthy(row, keys) ==
    LET hits == {i \in 1..Len(keys) : TruthyCell(Cell(row, keys[i]))}
    IN IF hits = {} THEN Cell(row, keys[Len(keys)])
       ELSE Cell(row, keys[CHOOSE i \in hits : \A j \in hits : i <= j])

SKU001 == <<"S", "K", "U", "-", "0", "0", "1">>

\* 'DEIXE_EM_BRANCO_PARA_NOVO'
Placeholder ==
    <<"D", "E", "I", "X", "E", "_", "E", "M", "_", "B", "R", "A", "N", "C", "O",
      "_", "P", "A", "R", "A", "_", "N", "O", "V", "O">>

IdKeys == <<"ID", "Id", "id">>

PROD00 == <<"P", "R", "O", "D", "-", "0", "0">>

CodeKeys == <<"Código", "Codigo", "Code", "SKU", "CÓDIGO", "CODIGO">>
NameKeys == <<"Item", "Nome", "Descrição", "Description", "Name", "ITEM",
              "NOME">>
LegacyCodeKeys == <<"Código", "Codigo", "Code", "SKU">>
LegacyNameKeys == <<"Item", "Nome", "Descrição", "Description", "Name">>
InventoryNameKeys == NameKeys \o <<"Produto", "PRODUTO">>

QtyKeys == <<"Quantidade", "Qtd", "Quantity", "Quant", "QUANTIDADE", "QTD">>
LegacyQtyKeys == <<"Quantidade", "Qtd", "Quantity", "Quant">>
InventoryQtyKeys == QtyKeys \o <<"Saldo", "SALDO">>
MinStockKeys == <<"Estoque Mínimo", "Estoque Minimo", "Min Stock", "Min",
                  "ESTOQUE MÍNIMO", "Mínimo">>
DateKeys == <<"Data", "Date", "DATA">>
TypeKeys == <<"Tipo", "Type", "TIPO">>
LegacyTypeKeys == <<"Tipo", "Type">>

\* "Normalize Type": SAIDA when the cell, in upper case, holds one of the
\* words of an exit, else ENTRADA
normalizeType(typeRaw) ==
    LET t == toUpperCase(String(typeRaw))
    IN IF \/ includes(t, <<"S", "A", "I">>)
          \/ includes(t, <<"O", "U", "T">>)
          \/ includes(t, <<"E", "X", "I", "T">>)
          \/ includes(t, <<"S", "A", "Í">>)
       THEN "SAIDA" ELSE "ENTRADA"

\* 'ENTRADA', the value of typeRaw when the row has no type
ENTRADA == <<"E", "N", "T", "R", "A", "D", "A">>
LegacyDateKeys == <<"Data", "Date">>

\* cell || d
OrCell(cell, d) == IF TruthyCell(cell) THEN cell ELSE d

(* A JavaScript number is NaN or a number of tenths: the model keeps one   *)
(* decimal place, and a number cell or a numeric string has at most one.   *)
NaN == [nan |-> TRUE, tenths |-> 0]
Num(tenths) == [nan |-> FALSE, tenths |-> tenths]

Digits == <<"0", "1", "2", "3", "4", "5", "6", "7", "8", "9">>

\* crypto.randomUUID() in the callback of the row of this index: a string
\* that no other call returns and that no cell of a sheet holds
randomUUID(index) == <<"u", "u", "i", "d", "-", Digits[index + 1]>>

IsDigit(c) == \E k \in 1..Len(Digits) : Digits[k] = c

DigitValue(c) == (CHOOSE k \in 1..Len(Digits) : Digits[k] = c) - 1

RECURSIVE DecimalValue(_, _)
\* the value of the first k characters of a string of digits
DecimalValue(s, k) ==
    IF k = 0 THEN 0 ELSE 10 * DecimalValue(s, k - 1) + DigitValue(s[k])

\* the characters of s before the decimal point, and the ones after it
IntegerPart(s) ==
    IF \E i \in 1..Len(s) : s[i] = "."
    THEN SubSeq(s, 1, (CHOOSE i \in 1..Len(s) : s[i] = ".") - 1)
    ELSE s

FractionPart(s) ==
    IF \E i \in 1..Len(s) : s[i] = "."
    THEN SubSeq(s, (CHOOSE i \in 1..Len(s) : s[i] = ".") + 1, Len(s))
    ELSE <<>>

Unsigned(s) == IF s # <<>> /\ s[1] = "-" THEN Tail(s) ELSE s

\* the string is a decimal numeral: an optional sign, digits, and at most
\* one digit after a decimal point
IsNumeral(s) ==
    LET whole == IntegerPart(Unsigned(s))
        frac == FractionPart(Unsigned(s))
    IN /\ Len(whole) + Len(frac) > 0
       /\ Len(frac) <= 1
       /\ \A i \in 1..Len(whole) : IsDigit(whole[i])
       /\ \A i \in 1..Len(frac) : IsDigit(frac[i])

\* the tenths a decimal numeral stands for
NumeralTenths(s) ==
    LET whole == IntegerPart(Unsigned(s))
        frac == FractionPart(Unsigned(s))
        magnitude == 10 * DecimalValue(whole, Len(whole))
                     + DecimalValue(frac, Len(frac))
    IN IF s[1] = "-" THEN 0 - magnitude ELSE magnitude

\* Number(cell): a number is itself, a string is trimmed and read ('' is 0,
\* text that is no numeral is NaN), undefined is NaN
Number(cell) ==
    CASE cell.t = "undefined" -> NaN
      [] cell.t = "number" -> Num(NumeralTenths(cell.v))
      [] cell.t = "string" ->
            LET s == trim(cell.v)
            IN IF s = <<>> THEN Num(0)
               ELSE IF IsNumeral(s) THEN Num(NumeralTenths(s))
               ELSE NaN

\* Math.abs
abs(x) == IF x.nan THEN x ELSE Num(IF x.tenths < 0 THEN 0 - x.tenths ELSE x.tenths)

\* Math.round: the nearest integer, a half going up
round(x) == IF x.nan THEN x ELSE Num(10 * ((x.tenths + 5) \div 10))

\* x || undefined
OrUndefined(x) == IF x.nan \/ x.tenths = 0 THEN Undefined ELSE x

\* x || 0
OrZero(x) == IF x.nan \/ x.tenths = 0 THEN Num(0) ELSE x

(* Dates.  The day number of a date is its distance in days from           *)
(* 1970-01-01; toISOString renders the day of a time value.                *)

\* 25567 + 1, the serial day the reconcilers take for 1970-01-01
SerialEpoch == 25567 + 1

\* a Date holds a time value of at most 8.64e15 ms either side of the epoch,
\* that is 100,000,000 days; beyond it the Date is invalid
MaxDateDays == 100000000

InvalidDate == [valid |-> FALSE, day |-> 0]

\* the Date of the start of day d
DateOfDay(d) ==
    IF d > MaxDateDays \/ d < 0 - MaxDateDays THEN InvalidDate
    ELSE [valid |-> TRUE, day |-> d]

\* the day number of the civil date y-m-d
DaysFromCivil(y, m, d) ==
    LET yy == IF m <= 2 THEN y - 1 ELSE y
        era == yy \div 400
        yoe == yy - era * 400
        mp == IF m > 2 THEN m - 3 ELSE m + 9
        doy == (153 * mp + 2) \div 5 + d - 1
        doe == yoe * 365 + yoe \div 4 - yoe \div 100 + doy
    IN era * 146097 + doe - 719468

DaysInMonth(y, m) ==
    IF m = 2
    THEN IF (y % 4 = 0 /\ y % 100 # 0) \/ y % 400 = 0 THEN 29 ELSE 28
    ELSE IF m \in {4, 6, 9, 11} THEN 30 ELSE 31

\* new Date(string), for the strings 'YYYY-MM-DD' that name a calendar day;
\* any other text is taken for no date
DateOfString(s) ==
    IF /\ Len(s) = 10
       /\ s[5] = "-" /\ s[8] = "-"
       /\ \A i \in {1, 2, 3, 4, 6, 7, 9, 10} : IsDigit(s[i])
    THEN LET y == DecimalValue(SubSeq(s, 1, 4), 4)
             m == DecimalValue(SubSeq(s, 6, 7), 2)
             d == DecimalValue(SubSeq(s, 9, 10), 2)
         IN IF m \in 1..12 /\ d \in 1..DaysInMonth(y, m)
            THEN DateOfDay(DaysFromCivil(y, m, d))
            ELSE InvalidDate
    ELSE InvalidDate

\* the integer a number is cut to, towards zero
Truncated(x) ==
    IF x.tenths < 0 THEN 0 - ((0 - x.tenths) \div 10) ELSE x.tenths \div 10

\* new Date(ms) for a whole number of milliseconds
DateOfMs(ms) == [valid |-> TRUE, day |-> ms \div DayMs]

\* "Handle Excel Date" of importFromExcel: the Date whose toISOString is
\* taken (toISOString of an invalid Date throws a RangeError), or no Date,
\* when dateStr stays today
excelDate(date) ==
    IF ~TruthyCell(date) THEN <<>>
    ELSE IF date.t = "number" /\ Number(date).tenths > 10 * 20000
    THEN <<DateOfDay((Number(date).tenths - 10 * SerialEpoch) \div 10)>>
    ELSE IF date.t = "string"
    THEN IF DateOfString(date.v).valid THEN <<DateOfString(date.v)>> ELSE <<>>
    ELSE <<>>

\* "Handle Excel Date" of the earlier importFromExcel: what is no serial day
\* goes to new Date(date), a number as milliseconds
excelDateLegacy(date) ==
    IF ~TruthyCell(date) THEN <<>>
    ELSE IF date.t = "number" /\ Number(date).tenths > 10 * 20000
    THEN <<DateOfDay((Number(date).tenths - 10 * SerialEpoch) \div 10)>>
    ELSE LET d == IF date.t = "number"
                  THEN DateOfMs(Truncated(Number(date)))
                  ELSE DateOfString(date.v)
         IN IF d.valid THEN <<d>> ELSE <<>>

\* dateStr of a row
dateStr(dates, today) == IF dates = <<>> THEN today ELSE dates[1].day

\* the row makes the map callback throw: toISOString of an invalid Date
importRowThrows(row) ==
    LET dates == excelDate(FirstTruthy(row, DateKeys))
    IN dates # <<>> /\ ~dates[1].valid

importRowLegacyThrows(row) ==
    LET dates == excelDateLegacy(FirstTruthy(row, LegacyDateKeys))
    IN dates # <<>> /\ ~dates[1].valid

\* one row of importFromExcel's map, when it does not throw: <<>> is null,
\* which the filter drops
importRow(row, today, index) ==
    LET code == FirstTruthy(row, CodeKeys)
        name == FirstTruthy(row, NameKeys)
        qty == OrCell(FirstTruthy(row, QtyKeys), NumberCell(<<"0">>))
        date == FirstTruthy(row, DateKeys)
        id == FirstTruthy(row, IdKeys)
    IN IF ~TruthyCell(code) \/ ~TruthyCell(name) THEN <<>>
       ELSE IF toUpperCase(String(code)) = SKU001 THEN <<>>
       ELSE <<[id |-> IF TruthyCell(id) /\ id # StringCell(Placeholder)
                         /\ id # StringCell(<<>>)
                      THEN StringCell(String(id))
                      ELSE StringCell(randomUUID(index)),
               date |-> dateStr(excelDate(date), today),
               type |-> normalizeType(OrCell(FirstTruthy(row, TypeKeys),
                                             StringCell(ENTRADA))),
               code |-> trim(toUpperCase(String(code))),
               name |-> trim(String(name)),
               quantity |-> OrZero(abs(Number(qty)))]>>

\* one row of the earlier importFromExcel (kardex-agrosytem/services)
importRowLegacy(row, today, index) ==
    LET code == FirstTruthy(row, LegacyCodeKeys)
        name == FirstTruthy(row, LegacyNameKeys)
        qty == OrCell(FirstTruthy(row, LegacyQtyKeys), NumberCell(<<"0">>))
        date == FirstTruthy(row, LegacyDateKeys)
        id == Cell(row, "ID")
    IN IF ~TruthyCell(code) \/ ~TruthyCell(name)
          \/ code = StringCell(SKU001)
       THEN <<>>
       ELSE <<[id |-> IF TruthyCell(id) /\ id # StringCell(Placeholder)
                      THEN id
                      ELSE StringCell(randomUUID(index)),
               date |-> dateStr(excelDateLegacy(date), today),
               type |-> normalizeType(OrCell(FirstTruthy(row, LegacyTypeKeys),
                                             StringCell(ENTRADA))),
               code |-> toUpperCase(String(code)),
               name |-> String(name),
               quantity |-> Number(qty)]>>

\* one row of importInventoryFromExcel's map
importInventoryRow(row, today) ==
    LET code == FirstTruthy(row, CodeKeys)
        name == FirstTruthy(row, InventoryNameKeys)
        qty == OrCell(FirstTruthy(row, InventoryQtyKeys), NumberCell(<<"0">>))
        minStock == OrCell(FirstTruthy(row, MinStockKeys), NumberCell(<<"0">>))
    IN IF ~TruthyCell(code) \/ ~TruthyCell(name) THEN <<>>
       ELSE IF startsWith(toUpperCase(String(code)), PROD00) THEN <<>>
       ELSE <<[code |-> trim(toUpperCase(String(code))),
               name |-> trim(String(name)),
               quantity |-> OrZero(round(abs(Number(qty)))),
               min_stock |-> OrUndefined(abs(Number(minStock)))]>>

RECURSIVE MapFilter(_, _, _)
\* rows.map(f).filter(r => r !== null), for the first k rows; f is given the
\* row and its index
MapFilter(f(_, _), rows, k) ==
    IF k = 0 THEN <<>> ELSE MapFilter(f, rows, k - 1) \o f(rows[k], k)

\* what a reconciler settles with: the records it resolves with and the
\* counts it logs, or the rejection of its promise
Resolved(records, processedRows, skippedRows) ==
    [settled |-> "resolved", records |-> records,
     processedRows |-> processedRows, skippedRows |-> skippedRows]

Rejected == [settled |-> "rejected", records |-> <<>>,
             processedRows |-> Undefined, skippedRows |-> Undefined]

\* importFromExcel: a throw of the map callback is caught and rejects the
\* promise
importFromExcel(rows, today) ==
    IF \E i \in 1..Len(rows) : importRowThrows(rows[i]) THEN Rejected
    ELSE LET records == MapFilter(LAMBDA r, i : importRow(r, today, i), rows,
                                  Len(rows))
         IN Resolved(records, Len(records), Len(rows) - Len(records))

\* the earlier importFromExcel, which keeps no counts
importFromExcelLegacy(rows, today) ==
    IF \E i \in 1..Len(rows) : importRowLegacyThrows(rows[i]) THEN Rejected
    ELSE Resolved(MapFilter(LAMBDA r, i : importRowLegacy(r, today, i), rows,
                            Len(rows)), Undefined, Undefined)

\* importInventoryFromExcel
importInventoryFromExcel(rows, today) ==
    LET records == MapFilter(LAMBDA r, i : importInventoryRow(r, today), rows,
                             Len(rows))
    IN Resolved(records, Len(records), Len(rows) - Len(records))

\* the rows of Modelo_Kardex.xlsx: the cells the reconcilers read for the
\* code and the name of the example row
downloadTemplate ==
    <<("ID" :> StringCell(Placeholder))
      @@ ("Data" :> StringCell(<<"2", "0", "2", "3", "-", "1", "0", "-", "2",
                                 "5">>))
      @@ ("Código" :> StringCell(SKU001))
      @@ ("Item" :> StringCell(<<"E", "x", "e", "m", "p", "l", "o", " ", "d",
                                 "e", " ", "I", "t", "e", "m">>))
      @@ ("Quantidade" :> NumberCell(<<"1", "0", "0">>))>>

\* the rows of Modelo_Lista_Estoque.xlsx
downloadInventoryTemplate ==
    <<("Código" :> StringCell(PROD00 \o <<"1">>))
      @@ ("Item" :> StringCell(<<"P", "r", "o", "d", "u", "t", "o", " ", "E",
                                 "x", "e", "m", "p", "l", "o", " ", "1">>))
      @@ ("Quantidade" :> NumberCell(<<"1", "0", "0">>)),
      ("Código" :> StringCell(PROD00 \o <<"2">>))
      @@ ("Item" :> StringCell(<<"P", "r", "o", "d", "u", "t", "o", " ", "E",
                                 "x", "e", "m", "p", "l", "o", " ", "2">>))
      @@ ("Quantidade" :> NumberCell(<<"5", "0">>))>>

\* code cells a user may type: the example code in other casings and with
\* surrounding blanks, an ordinary code, a blank cell, numbers, no cell
CodeCells ==
    {StringCell(SKU001),
     StringCell(<<"s", "k", "u", "-", "0", "0", "1">>),
     StringCell(<<" ">> \o SKU001),
     StringCell(SKU001 \o <<" ">>),
     StringCell(<<" ", "p", "r", "o", "d", "-", "0", "0", "1">>),
     StringCell(<<"a", "b", "-", "1">>),
     StringCell(<<" ">>),
     NumberCell(<<"7">>), NumberCell(<<"0">>), NoCell}

NameCells == {StringCell(<<"x", " ">>), NoCell}

\* quantity cells: numbers, negative and fractional ones, numerals typed as
\* text, text that is no number, no cell
QtyCells ==
    {NumberCell(<<"3">>), NumberCell(<<"-", "5">>), NumberCell(<<"0", ".", "4">>),
     StringCell(<<" ", "2", ".", "5">>), StringCell(<<"a", "b">>), NoCell}

\* date cells: a serial day, a serial day with a time of day, a number that
\* is no serial day, a timestamp in place of a serial day, a date typed as
\* text, text that is no date, no cell
DateCells ==
    {NumberCell(<<"4", "5", "0", "0", "0">>),
     NumberCell(<<"4", "5", "0", "0", "0", ".", "5">>),
     NumberCell(<<"7">>),
     NumberCell(<<"2", "0", "0", "0", "0", "0", "0", "0", "0">>),
     StringCell(<<"2", "0", "2", "3", "-", "1", "0", "-", "2", "5">>),
     StringCell(<<"a", "b">>), NoCell}

\* id cells: the placeholder of the template, an id, an empty cell, a
\* numeric id, the number 0
IdCells ==
    {StringCell(Placeholder), StringCell(<<"x", "1">>), StringCell(<<>>),
     NumberCell(<<"5">>), NumberCell(<<"0">>)}

\* the rows a user may write: rows that differ in the code and the name, and
\* rows of an ordinary item that differ in the quantity and the date
UserRows ==
    {(k :> c) @@ ("Item" :> n) : k \in {"Código", "SKU"}, c \in CodeCells,
                                  n \in NameCells}
    \cup {("Código" :> StringCell(<<"a", "b", "-", "1">>))
          @@ ("Item" :> StringCell(<<"x">>))
          @@ ("Quantidade" :> q) @@ ("Data" :> d) :
             q \in QtyCells, d \in DateCells}
    \cup {("Código" :> StringCell(<<"a", "b", "-", "1">>))
          @@ ("Item" :> StringCell(<<"x">>))
          @@ ("Quantidade" :> NumberCell(<<"3">>)) @@ ("ID" :> c) :
             c \in IdCells}

Sheets ==
    {downloadTemplate, downloadInventoryTemplate}
    \cup SeqsUpTo(UserRows, MaxRows)
    \cup {downloadTemplate \o <<r>> : r \in UserRows}
    \cup {<<r>> \o downloadInventoryTemplate : r \in UserRows}

InitImport ==
    /\ InitLedger
    /\ item = [balance |-> 0, min_stock |-> 0]
    /\ badge = NoBadge
    /\ listed = NoList
    /\ sheet \in Sheets
    /\ imported = NoImport
    /\ InitStorage

\* App.handleFileChange reads the chosen file
readMovements ==
    /\ imported' = [by |-> "importFromExcel"] @@ importFromExcel(sheet, DayOf(now))
    /\ UNCHANGED <<sheet, badgeVars, ledgerVars, storageVars, diario>>

\* the earlier reconciler reads the chosen file
readMovementsLegacy ==
    /\ imported' = [by |-> "importFromExcelLegacy"] @@ importFromExcelLegacy(sheet, DayOf(now))
    /\ UNCHANGED <<sheet, badgeVars, ledgerVars, storageVars, diario>>

\* InventoryList.handleFileImport reads the chosen file
readInventory ==
    /\ imported' = [by |-> "importInventoryFromExcel"] @@ importInventoryFromExcel(sheet, DayOf(now))
    /\ UNCHANGED <<sheet, badgeVars, ledgerVars, storageVars, diario>>

NextImport == readMovements \/ readMovementsLegacy \/ readInventory

SpecImport == InitImport /\ [][NextImport]_vars

TemplateRows(rows, template) ==
    {i \in 1..Len(rows) : \E j \in 1..Len(template) : rows[i] = template[j]}

\* C10 as claimed: a movement reconciler never emits a record whose code,
\* uppercased and trimmed, is SKU-001; the row of downloadTemplate yields no
\* record; the inventory reconciler accepts no row of
\* downloadInventoryTemplate.
C10_SentinelNeverImported ==
    /\ imported.by \in {"importFromExcel", "importFromExcelLegacy"} =>
          /\ \A i \in 1..Len(imported.records) :
                trim(toUpperCase(imported.records[i].code)) # SKU001
          /\ Len(imported.records)
                <= Len(sheet) - Cardinality(TemplateRows(sheet, downloadTemplate))
    /\ imported.by = "importInventoryFromExcel" =>
          Len(imported.records)
             <= Len(sheet)
                - Cardinality(TemplateRows(sheet, downloadInventoryTemplate))

\* the parts of C10 about the rows the templates hold: read back, they yield
\* no record
C10_TemplateRowsRejected ==
    /\ imported.by \in {"importFromExcel", "importFromExcelLegacy"} =>
          Len(imported.records)
             <= Len(sheet) - Cardinality(TemplateRows(sheet, downloadTemplate))
    /\ imported.by = "importInventoryFromExcel" =>
          Len(imported.records)
             <= Len(sheet)
                - Cardinality(TemplateRows(sheet, downloadInventoryTemplate))

\* the current movement reconciler emits the code SKU-001
C10_SentinelImported ==
    /\ imported.by = "importFromExcel"
    /\ \E i \in 1..Len(imported.records) : imported.records[i].code = SKU001


\* C11 as claimed: importFromExcel settles every batch by resolving, each
\* row either emitted as one record or counted as skipped: the two counts add
\* up to the number of rows and the processed count is the length of the
\* list; no row makes the reconciler raise or stops the rows after it.
C11_BatchPartitioned ==
    imported.by = "importFromExcel" =>
        /\ imported.settled = "resolved"
        /\ imported.processedRows + imported.skippedRows = Len(sheet)
        /\ imported.processedRows = Len(imported.records)

\* the part of C11 that holds: a batch that resolves is partitioned
C11_PartitionedWhenResolved ==
    (imported.by = "importFromExcel" /\ imported.settled = "resolved") =>
        /\ imported.processedRows + imported.skippedRows = Len(sheet)
        /\ imported.processedRows = Len(imported.records)

\* C12 as claimed: every quantity a movement reconciler emits is a number
\* >= 0, never NaN; the quantity of an accepted row is the absolute value of
\* its cell, and 0 when the cell is missing or no number.
C12_QuantityNonNegative ==
    imported.by \in {"importFromExcel", "importFromExcelLegacy"} =>
        /\ \A i \in 1..Len(imported.records) :
              /\ ~imported.records[i].quantity.nan
              /\ imported.records[i].quantity.tenths >= 0
        /\ (Len(sheet) = 1 /\ Len(imported.records) = 1) =>
              LET q == Number(Cell(sheet[1], "Quantidade"))
              IN imported.records[1].quantity
                    = IF q.nan THEN Num(0) ELSE abs(q)

\* the part of C12 that holds: the quantities of the current importFromExcel
C12_CurrentQuantityNonNegative ==
    imported.by = "importFromExcel" =>
        \A i \in 1..Len(imported.records) :
            /\ ~imported.records[i].quantity.nan
            /\ imported.records[i].quantity.tenths >= 0

\* C13 as claimed: every code the movement or the inventory reconciler emits
\* is non-empty, is its own uppercase form and has no leading or trailing
\* whitespace.
C13_CodeNormalized ==
    imported.by \in {"importFromExcel", "importInventoryFromExcel"} =>
        \A i \in 1..Len(imported.records) :
            LET code == imported.records[i].code
            IN /\ code # <<>>
               /\ toUpperCase(code) = code
               /\ trim(code) = code

\* the part of C13 that holds: an emitted code is uppercase and trimmed
C13_CodeUppercaseTrimmed ==
    imported.by \in {"importFromExcel", "importInventoryFromExcel"} =>
        \A i \in 1..Len(imported.records) :
            LET code == imported.records[i].code
            IN toUpperCase(code) = code /\ trim(code) = code


-----------------------------------------------------------------------------
(* The bulk inventory import: InventoryList.handleFileImport hands the     *)
(* items importInventoryFromExcel resolved to App.handleInventoryImport,   *)
(* which inserts them batch by batch.                                      *)

BATCH_SIZE == 2     \* items of one batch (50 in App.tsx, scaled down)

\* .order('created_at', { ascending: false }): the rows, newest first
orderByCreatedAt(rows) ==
    LET p == CHOOSE q \in Orders(rows) :
                 \A a, b \in 1..Len(rows) :
                     a < b => rows[q[a]].created_at >= rows[q[b]].created_at
    IN [k \in 1..Len(rows) |-> rows[p[k]]]

\* the transform of the rows read to the app format (storage 68-82)
transform(allData) == [k \in 1..Len(allData) |-> fromRow(allData[k])]

\* loadTransactions: the stored rows, newest first, in the app's format
loadTransactions(rows) == transform(orderByCreatedAt(rows))

\* the items importInventoryFromExcel resolves with
InventoryImportItems(codes, qtys, mins) ==
    [code : codes, name : {"n"}, quantity : qtys, min_stock : mins]

\* txData of handleInventoryImport
txData(it, today) ==
    [date |-> today, code |-> it.code, name |-> it.name, type |-> "ENTRADA",
     quantity |-> it.quantity, category_id |-> Undefined,
     min_stock |-> it.min_stock]

\* validItems.slice(i, i + BATCH_SIZE), as the indices of the items
batchOf(validItems, i) ==
    {j \in 1..Len(validItems) : i < j /\ j <= i + BATCH_SIZE}

\* handleFileImport up to the first await of handleInventoryImport; a file
\* with no item ends the handler at once
handleFileImport(items) ==
    /\ ~isLoading
    /\ bulk.pc = "idle"
    /\ IF items = <<>>
       THEN /\ bulk' = [bulk EXCEPT !.pc = "done", !.importResult = 0]
            /\ UNCHANGED syncStatus
       ELSE /\ bulk' = [bulk EXCEPT
                  !.pc = "loop", !.items = items,
                  !.validItems = SelectSeq(items, LAMBDA it : it.quantity > 0)]
            /\ syncStatus' = "SYNCING"
    /\ UNCHANGED <<transactions, dateFilter, isLoading, now, nextId, store>>

\* a loop that starts the insertions of every item left at once
issueBatchAllAtOnce ==
    /\ bulk.pc = "loop"
    /\ bulk.i < Len(bulk.validItems)
    /\ bulk' = [bulk EXCEPT
          !.pc = "await",
          !.pending = {j \in 1..Len(bulk.validItems) : bulk.i < j},
          !.submitted = @ \o SortByIndex(
                                {j \in 1..Len(bulk.validItems) : bulk.i < j})]
    /\ UNCHANGED <<ledgerVars, store>>

\* the head of the loop: the insertions of the next batch are all started
issueBatch ==
    /\ bulk.pc = "loop"
    /\ bulk.i < Len(bulk.validItems)
    /\ bulk' = [bulk EXCEPT
          !.pc = "await",
          !.pending = batchOf(bulk.validItems, bulk.i),
          !.submitted = @ \o SortByIndex(batchOf(bulk.validItems, bulk.i))]
    /\ UNCHANGED <<ledgerVars, store>>

\* one insertion of the batch settles: saveTransaction returns the saved
\* record, or null
settleInsert(j, ok) ==
    /\ bulk.pc = "await"
    /\ j \in bulk.pending
    /\ LET tx == txData(bulk.validItems[j], DayOf(now))
       IN /\ store' = IF ok THEN Append(store, insertedRow(tx, nextId, now))
                      ELSE store
          /\ bulk' = [bulk EXCEPT
                !.pending = @ \ {j},
                !.results = @ @@ (j :> saveTransaction(tx, ok, nextId, now))]
    /\ nextId' = nextId + 1
    /\ now' = now + 1
    /\ UNCHANGED <<transactions, syncStatus, dateFilter, isLoading>>

RECURSIVE Flatten(_, _)
\* the records of results[1..k], in order
Flatten(results, k) ==
    IF k = 0 THEN <<>> ELSE Flatten(results, k - 1) \o results[k]

\* a loop that gives up at the first batch with a failed insertion
collectBatchAbortsOnFailure ==
    /\ bulk.pc = "await"
    /\ bulk.pending = {}
    /\ bulk' = [bulk EXCEPT
          !.pc = "loop",
          !.i = IF \E j \in batchOf(bulk.validItems, bulk.i) :
                      bulk.results[j] = <<>>
                THEN Len(bulk.validItems) ELSE @ + BATCH_SIZE,
          !.newTransactions = Flatten(bulk.results, Len(bulk.results))]
    /\ UNCHANGED <<ledgerVars, store>>

\* Promise.all has resolved: the successful saves of the batch are collected
collectBatch ==
    /\ bulk.pc = "await"
    /\ bulk.pending = {}
    /\ bulk' = [bulk EXCEPT
          !.pc = "loop",
          !.i = @ + BATCH_SIZE,
          !.newTransactions = Flatten(bulk.results, Len(bulk.results))]
    /\ UNCHANGED <<ledgerVars, store>>

\* after the loop: the ledger is updated once, the user is told how many
\* items were saved, and handleFileImport sets its result
finishImport ==
    /\ bulk.pc = "loop"
    /\ bulk.i >= Len(bulk.validItems)
    /\ transactions' = bulk.newTransactions \o transactions
    /\ syncStatus' = "SYNCED"
    /\ bulk' = [bulk EXCEPT
          !.pc = "done",
          !.alert = Len(bulk.newTransactions),
          !.importResult = Len(bulk.items)]
    /\ UNCHANGED <<dateFilter, isLoading, now, nextId, store>>

BulkItems == InventoryImportItems({"A", "B"}, {0, 3}, {Undefined, 5})

NextBulk ==
    \/ /\ isLoading
       /\ loadData(<<>>)
       /\ UNCHANGED <<badgeVars, sheetVars, diario, storageVars>>
    \/ /\ bulk.pc = "idle"
       /\ \E items \in SeqsUpTo(BulkItems, MaxTx) : handleFileImport(items)
       /\ UNCHANGED <<badgeVars, sheetVars, diario, callVars>>
    \/ issueBatch /\ UNCHANGED <<badgeVars, sheetVars, diario, callVars>>
    \/ \E j \in bulk.pending, ok \in BOOLEAN :
          settleInsert(j, ok) /\ UNCHANGED <<badgeVars, sheetVars, diario, callVars>>
    \/ collectBatch /\ UNCHANGED <<badgeVars, sheetVars, diario, callVars>>
    \/ finishImport /\ UNCHANGED <<badgeVars, sheetVars, diario, callVars>>

SpecBulk == InitIdle /\ [][NextBulk]_vars


\* the valid items whose insertion succeeded
Succeeded == {j \in DOMAIN bulk.results : bulk.results[j] # <<>>}

\* C14 as claimed: when the import has ended, the record of every item
\* inserted with minStock m > 0 carries minStock m as saveTransaction
\* returned it, in the ledger and as loadTransactions returns it, and the
\* aggregation reports a minStock for its code.
C14_MinStockKept ==
    bulk.pc = "done" =>
        \A j \in Succeeded :
            LET m == bulk.validItems[j].min_stock
                saved == bulk.results[j][1]
                loaded == loadTransactions(store)
            IN m > 0 =>
                  /\ saved.min_stock = m
                  /\ \E k \in 1..Len(transactions) :
                        /\ transactions[k].id = saved.id
                        /\ transactions[k].min_stock = m
                  /\ \E k \in 1..Len(loaded) :
                        loaded[k].id = saved.id /\ loaded[k].min_stock = m
                  /\ inventory(transactions)[saved.code].min_stock = m
                  /\ stockByCode(transactions)[saved.code].min_stock = m

\* C15: every valid item is submitted to the store at most once at any time
\* and exactly once when the import has ended, whatever insertions failed;
\* the row of an insertion that succeeded stays in the store when a sibling
\* or a later insertion fails; the loop ends only after the last batch.
C15_EverySubmittedOnce ==
    /\ \A a, b \in 1..Len(bulk.submitted) :
          bulk.submitted[a] = bulk.submitted[b] => a = b
    /\ \A j \in Succeeded :
          \E k \in 1..Len(store) : store[k].id = bulk.results[j][1].id
    /\ Len(store) = Cardinality(Succeeded)
    /\ bulk.pc = "done" =>
          /\ bulk.i >= Len(bulk.validItems)
          /\ {bulk.submitted[a] : a \in 1..Len(bulk.submitted)}
                = 1..Len(bulk.validItems)
          /\ DOMAIN bulk.results = 1..Len(bulk.validItems)

\* the import has ended; the first insertion of the first batch failed, its
\* sibling succeeded and so did the insertion of the second batch
C15_Witness ==
    /\ bulk.pc = "done"
    /\ Len(bulk.validItems) = BATCH_SIZE + 1
    /\ bulk.results[1] = <<>>
    /\ \A j \in 2..Len(bulk.validItems) : bulk.results[j] # <<>>
    /\ Len(store) = BATCH_SIZE

\* C16 as claimed: when the import has ended the ledger has gained exactly
\* the records whose insertion succeeded, each once, and the counts reported
\* to the user (the alert of handleInventoryImport and the result of
\* handleFileImport) are the number of successful insertions.
C16_ReportsSuccesses ==
    bulk.pc = "done" =>
        /\ Len(transactions) = Cardinality(Succeeded)
        /\ \A j \in Succeeded :
              Cardinality({k \in 1..Len(transactions) :
                  transactions[k] = bulk.results[j][1]}) = 1
        /\ bulk.items # <<>> => bulk.alert = Cardinality(Succeeded)
        /\ bulk.importResult = Cardinality(Succeeded)

\* the part of C16 that holds: the ledger and the alert of
\* handleInventoryImport
C16_LedgerGainsSuccesses ==
    bulk.pc = "done" =>
        /\ Len(transactions) = Cardinality(Succeeded)
        /\ \A j \in Succeeded :
              Cardinality({k \in 1..Len(transactions) :
                  transactions[k] = bulk.results[j][1]}) = 1
        /\ bulk.items # <<>> => bulk.alert = Cardinality(Succeeded)


-----------------------------------------------------------------------------
(* The handlers of App with the store they call, their awaits as separate  *)
(* steps: a call reaches the store, and later its continuation runs.       *)

\* handleAddTransaction with the insert it makes in the store
addTransaction(newTx, ok) ==
    /\ handleAddTransaction(newTx, ok)
    /\ store' = IF ok THEN Append(store, insertedRow(newTx, nextId, now))
                ELSE store
    /\ UNCHANGED <<bulk, callVars>>

\* handleDelete up to its await: deleteTransaction reaches the store, which
\* removes the row and confirms, or fails
requestDelete(id, ok) ==
    /\ ~isLoading
    /\ \E k \in 1..Len(transactions) : transactions[k].id = id
    /\ \A c \in inflight : c.op = "delete" => c.id # id
    /\ store' = IF ok THEN SelectSeq(store, LAMBDA r : r.id # id) ELSE store
    /\ inflight' = inflight \cup {[op |-> "delete", id |-> id, success |-> ok]}
    /\ syncStatus' = "SYNCING"
    /\ UNCHANGED <<transactions, dateFilter, isLoading, now, nextId, bulk,
                   deleted, loader>>

\* handleDelete after its await (App.tsx 264-270)
settleDelete(c) ==
    /\ c.op = "delete"
    /\ IF c.success
       THEN /\ transactions' =
                  SelectSeq(transactions, LAMBDA t : t.id # c.id)
            /\ syncStatus' = "SYNCED"
            /\ deleted' = deleted \cup {c.id}
       ELSE /\ syncStatus' = "OFFLINE"
            /\ UNCHANGED <<transactions, deleted>>
    /\ inflight' = inflight \ {c}
    /\ UNCHANGED <<dateFilter, isLoading, now, nextId, store, bulk, loader>>

\* updateTransaction (storage 140-171): the row with this id after the update
updatedRow(row, tx) ==
    [row EXCEPT !.date = tx.date, !.code = tx.code, !.name = tx.name,
                !.type = tx.type, !.quantity = tx.quantity,
                !.category_id = OrElse(tx.category_id, Undefined)]

\* handleUpdateTransaction up to its await: updateTransaction reaches the
\* store, which changes the row and confirms, or fails
requestUpdate(id, updatedTx, ok) ==
    /\ ~isLoading
    /\ \E k \in 1..Len(transactions) : transactions[k].id = id
    /\ \A c \in inflight : c.op # "update"
    /\ syncStatus' = "SYNCING"
    /\ store' = IF ok
                THEN [k \in 1..Len(store) |->
                         IF store[k].id = id THEN updatedRow(store[k], updatedTx)
                         ELSE store[k]]
                ELSE store
    /\ inflight' = inflight \cup {[op |-> "update", id |-> id, success |-> ok,
                                    updatedTx |-> updatedTx]}
    /\ UNCHANGED <<transactions, dateFilter, isLoading, now, nextId, bulk,
                   deleted, loader>>

\* a continuation that changes the ledger whatever the store answered
settleUpdateOptimistic(c) ==
    /\ c.op = "update"
    /\ transactions' = [k \in 1..Len(transactions) |->
                           IF transactions[k].id = c.id
                           THEN c.updatedTx @@ transactions[k]
                           ELSE transactions[k]]
    /\ syncStatus' = IF c.success THEN "SYNCED" ELSE "OFFLINE"
    /\ inflight' = inflight \ {c}
    /\ UNCHANGED <<dateFilter, isLoading, now, nextId, store, bulk, deleted,
                   loader>>

\* handleUpdateTransaction after its await (App.tsx 247-254)
settleUpdate(c) ==
    /\ c.op = "update"
    /\ IF c.success
       THEN /\ transactions' = [k \in 1..Len(transactions) |->
                                   IF transactions[k].id = c.id
                                   THEN c.updatedTx @@ transactions[k]
                                   ELSE transactions[k]]
            /\ syncStatus' = "SYNCED"
       ELSE /\ syncStatus' = "OFFLINE"
            /\ UNCHANGED transactions
    /\ inflight' = inflight \ {c}
    /\ UNCHANGED <<dateFilter, isLoading, now, nextId, store, bulk, deleted,
                   loader>>

\* handleFileChange, once the user has confirmed the records read from the
\* file: the records are saved one after the other
confirmImport(importedData) ==
    /\ ~isLoading
    /\ importedData # <<>>
    /\ \A c \in inflight : c.op \notin {"import", "reload"}
    /\ nextId + Len(importedData) <= MaxTx + 1
    /\ syncStatus' = "SYNCING"
    /\ inflight' = inflight \cup {[op |-> "import", rest |-> importedData]}
    /\ UNCHANGED <<transactions, dateFilter, isLoading, now, nextId, store,
                   bulk, deleted, loader>>

\* one saveTransaction of the loop of handleFileChange; its result is not
\* looked at
saveImported(c, ok) ==
    /\ c.op = "import"
    /\ c.rest # <<>>
    /\ store' = IF ok THEN Append(store, insertedRow(Head(c.rest), nextId, now))
                ELSE store
    /\ inflight' = (inflight \ {c})
                      \cup {[op |-> "import", rest |-> Tail(c.rest)]}
    /\ nextId' = nextId + 1
    /\ now' = now + 1
    /\ UNCHANGED <<transactions, syncStatus, dateFilter, isLoading, bulk,
                   deleted, loader>>

\* "Reload data": loadTransactions reads the store
queryReload(c) ==
    /\ c.op = "import"
    /\ c.rest = <<>>
    /\ inflight' = (inflight \ {c})
                      \cup {[op |-> "reload", data |-> loadTransactions(store)]}
    /\ UNCHANGED <<ledgerVars, store, bulk, deleted, loader>>

\* setTransactions(data) once loadTransactions has returned
applyReload(c) ==
    /\ c.op = "reload"
    /\ transactions' = c.data
    /\ syncStatus' = "SYNCED"
    /\ inflight' = inflight \ {c}
    /\ UNCHANGED <<dateFilter, isLoading, now, nextId, store, bulk, deleted,
                   loader>>

RaceInputs == TxInputs({"A"}, {"ENTRADA"}, {1}, {1}, {Undefined}, {1}, {"n"})

NextRace ==
    \/ /\ isLoading
       /\ loadData(<<>>)
       /\ UNCHANGED <<badgeVars, sheetVars, diario, storageVars>>
    \/ \E newTx \in RaceInputs, ok \in BOOLEAN :
          addTransaction(newTx, ok) /\ UNCHANGED <<badgeVars, sheetVars, diario>>
    \/ \E k \in 1..Len(transactions), ok \in BOOLEAN :
          requestDelete(transactions[k].id, ok)
          /\ UNCHANGED <<badgeVars, sheetVars, diario>>
    \/ \E c \in inflight : settleDelete(c) /\ UNCHANGED <<badgeVars, sheetVars, diario>>
    \/ \E importedData \in SeqsUpTo(RaceInputs, 1) :
          confirmImport(importedData) /\ UNCHANGED <<badgeVars, sheetVars, diario>>
    \/ \E c \in inflight, ok \in BOOLEAN :
          saveImported(c, ok) /\ UNCHANGED <<badgeVars, sheetVars, diario>>
    \/ \E c \in inflight : queryReload(c) /\ UNCHANGED <<badgeVars, sheetVars, diario>>
    \/ \E c \in inflight : applyReload(c) /\ UNCHANGED <<badgeVars, sheetVars, diario>>

SpecRace == InitIdle /\ [][NextRace]_vars

\* C17 as claimed: once the store has confirmed the deletion of an id, the
\* ledger holds no record with that id, and so no aggregate includes its
\* quantity, whatever other handlers are in flight.
C17_DeletedStaysDeleted ==
    \A id \in deleted :
        \A k \in 1..Len(transactions) : transactions[k].id # id

\* the part of C17 about the other records: the continuation of a confirmed
\* deletion removes the record with that id from the ledger and leaves the
\* other records as they were
C17_DeletionRemovesOnlyId ==
    [][\A c \in inflight :
          (c.op = "delete" /\ c.success /\ inflight' = inflight \ {c}) =>
              transactions' = SelectSeq(transactions, LAMBDA t : t.id # c.id)
      ]_vars


-----------------------------------------------------------------------------
(* loadTransactions page by page, with the store changing under it *)

PAGE_SIZE == 2

\* .range(from, to) of the ordered rows: positions from..to, counted from 0
range(rows, from, to) ==
    SubSeq(rows, from + 1, IF to + 1 < Len(rows) THEN to + 1 ELSE Len(rows))

\* a call of loadTransactions starts; snapshot keeps the rows stored at the
\* time of the call and quiet tells that nothing has disturbed the call
startLoad ==
    /\ loader.pc # "fetch"
    /\ loader' = [pc |-> "fetch", page |-> 0, allData |-> <<>>,
                  snapshot |-> store, result |-> <<>>, quiet |-> TRUE]
    /\ UNCHANGED <<ledgerVars, store, bulk, inflight, deleted>>

\* one turn of the while loop: the page request and what follows it up to
\* the next request or the return.  outcome is "data", "error" (the request
\* answers with an error) or "throws" (the request raises)
fetchPage(outcome) ==
    /\ loader.pc = "fetch"
    /\ LET from == loader.page * PAGE_SIZE
           to == from + PAGE_SIZE - 1
           data == range(orderByCreatedAt(store), from, to)
           allData == loader.allData \o data
       IN loader' =
            CASE outcome = "throws" ->
                   [loader EXCEPT !.pc = "local", !.quiet = FALSE]
              [] outcome = "error" /\ loader.page = 0 ->
                   [loader EXCEPT !.pc = "local", !.quiet = FALSE]
              [] outcome = "error" /\ loader.page # 0 ->
                   [loader EXCEPT !.pc = "returned", !.quiet = FALSE,
                                  !.result = transform(loader.allData)]
              [] outcome = "data" /\ Len(data) = PAGE_SIZE ->
                   [loader EXCEPT !.allData = allData, !.page = @ + 1]
              [] outcome = "data" /\ Len(data) # PAGE_SIZE ->
                   [loader EXCEPT !.pc = "returned", !.allData = allData,
                                  !.page = IF data # <<>> THEN @ + 1 ELSE @,
                                  !.result = transform(allData)]
    /\ UNCHANGED <<ledgerVars, store, bulk, inflight, deleted>>

\* no page request of a call is outstanding that has not been answered at
\* all: the store changes before a call or between two of its page requests
betweenRequests == loader.pc = "fetch" => loader.page > 0

\* another client saves a record
otherInsert(tx) ==
    /\ betweenRequests
    /\ Len(store) < MaxTx
    /\ nextId <= MaxTx + 1
    /\ store' = Append(store, insertedRow(tx, nextId, now))
    /\ nextId' = nextId + 1
    /\ now' = now + 1
    /\ loader' = IF loader.pc = "fetch" THEN [loader EXCEPT !.quiet = FALSE]
                 ELSE loader
    /\ UNCHANGED <<transactions, syncStatus, dateFilter, isLoading, bulk,
                   inflight, deleted>>

\* another client deletes a record
otherDelete(id) ==
    /\ betweenRequests
    /\ store' = SelectSeq(store, LAMBDA r : r.id # id)
    /\ loader' = IF loader.pc = "fetch" THEN [loader EXCEPT !.quiet = FALSE]
                 ELSE loader
    /\ UNCHANGED <<ledgerVars, bulk, inflight, deleted>>

NextPages ==
    \/ startLoad /\ UNCHANGED <<badgeVars, sheetVars, diario>>
    \/ \E outcome \in {"data", "error", "throws"} :
          fetchPage(outcome) /\ UNCHANGED <<badgeVars, sheetVars, diario>>
    \/ \E tx \in RaceInputs : otherInsert(tx) /\ UNCHANGED <<badgeVars, sheetVars, diario>>
    \/ \E k \in 1..Len(store) :
          otherDelete(store[k].id) /\ UNCHANGED <<badgeVars, sheetVars, diario>>

SpecPages == InitIdle /\ [][NextPages]_vars

\* the number of times the record with this id is in the result
Occurrences(result, id) ==
    Cardinality({k \in 1..Len(result) : result[k].id = id})

\* C18 as claimed: whenever loadTransactions returns without falling back to
\* local storage, its result holds every record stored at the time of the
\* call exactly once, also when a page request failed after the first page
\* and when another client inserted or deleted records between two page
\* requests.
C18_FullSnapshot ==
    loader.pc = "returned" =>
        \A k \in 1..Len(loader.snapshot) :
            Occurrences(loader.result, loader.snapshot[k].id) = 1

\* the part of C18 that the code keeps: a call that no failure and no other
\* client disturbed returns every stored record exactly once, whatever the
\* number of records relative to the page size
C18_QuietFullSnapshot ==
    (loader.pc = "returned" /\ loader.quiet) =>
        /\ Len(loader.result) = Len(loader.snapshot)
        /\ \A k \in 1..Len(loader.snapshot) :
              Occurrences(loader.result, loader.snapshot[k].id) = 1

\* no record is in the result twice
C18_NoDuplicate ==
    loader.pc = "returned" =>
        \A k \in 1..Len(loader.result) :
            Occurrences(loader.result, loader.result[k].id) = 1


-----------------------------------------------------------------------------
(* Movements and counts of one code, under the date filter *)

\* what the form submits: an entry of 100, an exit of 30, counts of 60 and 40
CountInputs ==
    {formData(f) : f \in
        TxInputs({"A"}, {"ENTRADA"}, {100}, {1}, {Undefined}, {Today}, {"n"})
        \cup TxInputs({"A"}, {"SAIDA"}, {30}, {1}, {Undefined}, {Today}, {"n"})
        \cup TxInputs({"A"}, Types, {60, 40}, {2}, {Undefined},
                      {Today, FutureDay}, {"n"})}

NextCounts ==
    \/ /\ isLoading
       /\ loadData(<<>>)
       /\ UNCHANGED <<badgeVars, sheetVars, diario, storageVars>>
    \/ \E newTx \in CountInputs, ok \in BOOLEAN :
          handleAddTransaction(newTx, ok)
          /\ UNCHANGED <<badgeVars, sheetVars, diario, storageVars>>
    \/ \E f \in {"7d", "ALL"} :
          setDateFilter(f) /\ UNCHANGED <<badgeVars, sheetVars, diario, storageVars>>

SpecCounts == InitIdle /\ [][NextCounts]_vars

\* C19 as claimed: in the windowed statistics the movement count is the
\* number of entry movements plus the number of exit movements, for every
\* ledger and window; a COUNT record in the window adds to none of the three.
C19_MovementCountIsInPlusOut ==
    LET st == stats(transactions, dateFilter, now)
    IN st.totalTransactions = st.entriesToday + st.exitsToday

\* the part of C19 that the code keeps: the entry and exit counts are the
\* numbers of the MOVEMENT records of the window, not their summed quantity,
\* and a COUNT record adds to neither
C19_InOutCountMovements ==
    LET st == stats(transactions, dateFilter, now)
        window == filteredTransactions(transactions, dateFilter, now)
    IN /\ st.entriesToday = Cardinality(
              {i \in 1..Len(window) : window[i].type = "ENTRADA"
                                      /\ window[i].category_id # 2})
       /\ st.exitsToday = Cardinality(
              {i \in 1..Len(window) : window[i].type = "SAIDA"
                                      /\ window[i].category_id # 2})


\* C20 as claimed: in every iteration order, a code's contagens is the number
\* of its COUNT records and its lastContagem is the {quantity, date} of the
\* COUNT record of greatest createdAt among them, whatever the dates of the
\* records.
C20_LastCountIsNewest ==
    \A p \in Orders(transactions) :
        \A txs \in {Permuted(transactions, p)} :
            \A c \in DOMAIN inventory(txs) :
                LET e == inventory(txs)[c]
                    counts == CountsOf(txs, c)
                IN /\ e.contagens = Cardinality(counts)
                   /\ counts # {} =>
                         e.lastContagem =
                            <<[quantity |-> txs[Newest(txs, counts)].quantity,
                               date |-> txs[Newest(txs, counts)].date]>>

\* C20 for the ledger as the App holds it, newest record first
C20_LastCountIsNewestInLedgerOrder ==
    \A c \in DOMAIN inventory(transactions) :
        LET counts == CountsOf(transactions, c)
        IN counts # {} =>
              inventory(transactions)[c].lastContagem[1].quantity
                  = transactions[Newest(transactions, counts)].quantity

\* the parts of C20 that the code keeps: contagens is the number of the
\* code's COUNT records in every iteration order, and a ledger of an entry of
\* 100, an exit of 30 and a count of 60 gives balance 70, one count event and
\* a last count of 60
C20_CountEvents ==
    \A p \in Orders(transactions) :
        \A txs \in {Permuted(transactions, p)} :
            \A c \in DOMAIN inventory(txs) :
                LET e == inventory(txs)[c]
                IN /\ e.contagens = Cardinality(CountsOf(txs, c))
                   /\ ( /\ Len(txs) = 3
                        /\ {[type |-> txs[i].type, quantity |-> txs[i].quantity,
                             category_id |-> txs[i].category_id] :
                               i \in 1..3}
                             = {[type |-> "ENTRADA", quantity |-> 100,
                                 category_id |-> 1],
                                [type |-> "SAIDA", quantity |-> 30,
                                 category_id |-> 1],
                                [type |-> "ENTRADA", quantity |-> 60,
                                 category_id |-> 2]} )
                      => /\ e.balance = 70
                         /\ e.contagens = 1
                         /\ e.lastContagem[1].quantity = 60


-----------------------------------------------------------------------------
(* The bulk inventory import: batches *)

\* the insertions started and not settled yet
InFlight ==
    {bulk.submitted[a] : a \in 1..Len(bulk.submitted)} \ DOMAIN bulk.results

\* C21: during a bulk inventory import at most BATCH_SIZE insertions are in
\* flight at any time, the insertions in flight all belong to the batch the
\* loop is at, and no insertion of a later batch has been started while an
\* insertion of that batch has not settled.
C21_BatchesInTurn ==
    /\ Cardinality(InFlight) <= BATCH_SIZE
    /\ InFlight \subseteq batchOf(bulk.validItems, bulk.i)
    /\ InFlight = bulk.pending
    /\ \A a \in 1..Len(bulk.submitted) :
          bulk.submitted[a] <=
              IF bulk.pc = "await" THEN bulk.i + BATCH_SIZE ELSE bulk.i

\* the second batch is in flight after an insertion of the first batch has
\* failed and the other has succeeded
C21_Witness ==
    /\ bulk.pc = "await"
    /\ bulk.i = BATCH_SIZE
    /\ InFlight # {}
    /\ Len(bulk.validItems) > BATCH_SIZE
    /\ \E j \in 1..BATCH_SIZE : bulk.results[j] = <<>>
    /\ \E j \in 1..BATCH_SIZE : bulk.results[j] # <<>>


-----------------------------------------------------------------------------
(* The bulk inventory import: from the rows of the sheet to the records *)

\* items.filter(item => item.quantity > 0) on the items of the reconciler
validItems(items) ==
    SelectSeq(items, LAMBDA it : ~it.quantity.nan /\ it.quantity.tenths > 0)

\* the records handleInventoryImport submits for the rows of a sheet
generatedRecords(rows, today) ==
    LET items == validItems(importInventoryFromExcel(rows, today).records)
    IN [k \in 1..Len(items) |-> txData(items[k], today)]

\* the quantity written in a row, as a number
RowQuantity(row) ==
    Number(OrCell(FirstTruthy(row, InventoryQtyKeys), NumberCell(<<"0">>)))

\* C22 as claimed: the bulk inventory import generates a record only for rows
\* whose quantity is positive; each generated record is a MOVEMENT of
\* direction IN whose quantity is the row's quantity rounded to the nearest
\* integer and is >= 1; rows whose quantity is zero, negative or non-numeric
\* generate no record.
C22_OnlyPositiveRows ==
    imported.by = "importInventoryFromExcel" =>
        LET generated == generatedRecords(sheet, DayOf(now))
            positive == {i \in 1..Len(sheet) :
                            /\ ~RowQuantity(sheet[i]).nan
                            /\ RowQuantity(sheet[i]).tenths > 0}
        IN /\ Len(generated) <= Cardinality(positive)
           /\ \A k \in 1..Len(generated) :
                 /\ generated[k].type = "ENTRADA"
                 /\ operationAffectsStock(generated[k].category_id)
                 /\ generated[k].quantity.tenths % 10 = 0
                 /\ generated[k].quantity.tenths >= 10
           /\ (Len(sheet) = 1 /\ Len(generated) = 1) =>
                 generated[1].quantity = round(RowQuantity(sheet[1]))

\* the part of C22 that the code keeps: every generated record is a MOVEMENT
\* of direction IN with a whole quantity >= 1, and a row whose quantity is
\* zero or non-numeric generates no record
C22_WholePositiveQuantity ==
    imported.by = "importInventoryFromExcel" =>
        LET generated == generatedRecords(sheet, DayOf(now))
        IN /\ \A k \in 1..Len(generated) :
                 /\ generated[k].type = "ENTRADA"
                 /\ operationAffectsStock(generated[k].category_id)
                 /\ generated[k].quantity.tenths % 10 = 0
                 /\ generated[k].quantity.tenths >= 10
           /\ (Len(sheet) = 1 /\ Len(generated) = 1) =>
                 generated[1].quantity = round(abs(RowQuantity(sheet[1])))
           /\ (Len(sheet) = 1 /\ (RowQuantity(sheet[1]).nan
                                  \/ RowQuantity(sheet[1]).tenths = 0)) =>
                 generated = <<>>


-----------------------------------------------------------------------------
(* The reconcilers: the date of a row *)

\* the whole part of a number, rounded down
Floor(x) ==
    IF x.tenths >= 0 THEN x.tenths \div 10
    ELSE 0 - ((9 - x.tenths) \div 10)

\* the day a date cell stands for when the offset of a serial day is
\* offset: a serial day above 20000, a date written as text, or else today
DayFor(date, offset, today) ==
    IF date.t = "number" /\ Number(date).tenths > 10 * 20000
    THEN Floor(Number(date)) - offset
    ELSE IF date.t = "string" /\ DateOfString(date.v).valid
    THEN DateOfString(date.v).day
    ELSE today

\* the sheet is one row of an ordinary item, read by a movement reconciler
OneRowRead ==
    /\ imported.by \in {"importFromExcel", "importFromExcelLegacy"}
    /\ Len(sheet) = 1
    /\ "Data" \in DOMAIN sheet[1]
    /\ "ID" \notin DOMAIN sheet[1]

\* C23 as claimed: the reconciler resolves the date of a row to a valid
\* calendar date in every case: a serial day s > 20000 to the day s - 25569
\* days after 1970-01-01, a parseable date string to that date, every other
\* value (missing, unparseable, a number <= 20000) to today.
C23_DateResolved ==
    OneRowRead =>
        /\ imported.settled = "resolved"
        /\ Len(imported.records) = 1
        /\ imported.records[1].date = DayFor(sheet[1]["Data"], 25569, DayOf(now))

\* the part of C23 that the code keeps: when the current reconciler resolves,
\* a serial day s > 20000 is the day s - 25568 days after 1970-01-01, a
\* parseable date string is that date, and every other value is today
C23_DateResolvedFromSerialEpoch ==
    (OneRowRead /\ imported.by = "importFromExcel"
                /\ imported.settled = "resolved") =>
        /\ Len(imported.records) = 1
        /\ imported.records[1].date
              = DayFor(sheet[1]["Data"], SerialEpoch, DayOf(now))


-----------------------------------------------------------------------------
(* The reconcilers: the id of a record *)

\* the ids crypto.randomUUID() can have returned for the rows of the sheet
FreshIds == {StringCell(randomUUID(k)) : k \in 1..Len(sheet)}

\* the sheet is one row of an ordinary item with an ID cell, read by a
\* movement reconciler that resolved
OneRowWithId ==
    /\ imported.by \in {"importFromExcel", "importFromExcelLegacy"}
    /\ imported.settled = "resolved"
    /\ Len(sheet) = 1
    /\ "ID" \in DOMAIN sheet[1]
    /\ sheet[1]["Código"] = StringCell(<<"a", "b", "-", "1">>)

\* C24 as claimed: every record a movement reconciler emits has an id; it is
\* the row's ID when the row has a non-empty ID different from the
\* placeholder, and otherwise a fresh id that differs from the id of every
\* other record of the batch; no record has the placeholder as its id.
C24_RowIdOrFresh ==
    imported.by \in {"importFromExcel", "importFromExcelLegacy"} =>
        /\ \A i \in 1..Len(imported.records) :
              /\ TruthyCell(imported.records[i].id)
              /\ String(imported.records[i].id) # Placeholder
              /\ imported.records[i].id \in FreshIds =>
                    \A j \in 1..Len(imported.records) :
                        j # i => imported.records[j].id # imported.records[i].id
        /\ OneRowWithId =>
              /\ Len(imported.records) = 1
              /\ IF String(sheet[1]["ID"]) \notin {<<>>, Placeholder}
                 THEN String(imported.records[1].id) = String(sheet[1]["ID"])
                 ELSE imported.records[1].id \in FreshIds

\* the part of C24 that the code keeps: the same with the number 0 in the ID
\* cell taken for no ID
C24_TruthyRowIdOrFresh ==
    imported.by \in {"importFromExcel", "importFromExcelLegacy"} =>
        /\ \A i \in 1..Len(imported.records) :
              /\ TruthyCell(imported.records[i].id)
              /\ String(imported.records[i].id) # Placeholder
              /\ imported.records[i].id \in FreshIds =>
                    \A j \in 1..Len(imported.records) :
                        j # i => imported.records[j].id # imported.records[i].id
        /\ OneRowWithId =>
              /\ Len(imported.records) = 1
              /\ IF TruthyCell(sheet[1]["ID"])
                    /\ String(sheet[1]["ID"]) # Placeholder
                 THEN String(imported.records[1].id) = String(sheet[1]["ID"])
                 ELSE imported.records[1].id \in FreshIds


-----------------------------------------------------------------------------
(* Updates and deletions the store refuses *)

\* what the form submits when a record is edited
UpdateInputs == TxInputs({"A"}, {"SAIDA"}, {2}, {1}, {Undefined}, {1}, {"n"})

NextRefusal ==
    \/ /\ isLoading
       /\ loadData(<<>>)
       /\ UNCHANGED <<badgeVars, sheetVars, diario, storageVars>>
    \/ \E newTx \in RaceInputs, ok \in BOOLEAN :
          addTransaction(newTx, ok) /\ UNCHANGED <<badgeVars, sheetVars, diario>>
    \/ \E k \in 1..Len(transactions), ok \in BOOLEAN :
          requestDelete(transactions[k].id, ok)
          /\ UNCHANGED <<badgeVars, sheetVars, diario>>
    \/ \E c \in inflight : settleDelete(c) /\ UNCHANGED <<badgeVars, sheetVars, diario>>
    \/ \E k \in 1..Len(transactions), updatedTx \in UpdateInputs,
          ok \in BOOLEAN :
          requestUpdate(transactions[k].id, updatedTx, ok)
          /\ UNCHANGED <<badgeVars, sheetVars, diario>>
    \/ \E c \in inflight : settleUpdate(c) /\ UNCHANGED <<badgeVars, sheetVars, diario>>

SpecRefusal == InitIdle /\ [][NextRefusal]_vars

\* the call of an update or a deletion that this step starts
Started(c) ==
    c.op \in {"update", "delete"} /\ c \notin inflight /\ c \in inflight'

\* the call of an update or a deletion whose continuation this step runs
Settled(c) ==
    c.op \in {"update", "delete"} /\ c \in inflight /\ c \notin inflight'

\* C25: when the store reports failure for an update or a deletion, the
\* continuation leaves the ledger exactly as it was and the sync status
\* becomes OFFLINE; an update or a deletion changes the ledger only in the
\* continuation that follows a success of the store, never when the call is
\* started.
C25_FailureLeavesLedger ==
    [][ /\ \A c \in inflight' : Started(c) => transactions' = transactions
        /\ \A c \in inflight :
              Settled(c) =>
                 IF c.success
                 THEN syncStatus' = "SYNCED"
                 ELSE transactions' = transactions /\ syncStatus' = "OFFLINE"
      ]_vars

\* the continuation of an update or a deletion that the store refused has
\* run: no call is in flight, the ledger holds the stored record as it was
\* saved, and the sync status is OFFLINE
C25_Witness ==
    /\ syncStatus = "OFFLINE"
    /\ inflight = {}
    /\ Len(store) = 1
    /\ transactions = loadTransactions(store)
    /\ transactions[1].type = "ENTRADA"


-----------------------------------------------------------------------------
(* The logbook (app.js): notas and ordens kept in localStorage.  A stored   *)
(* record is its id, its numero and its status; an id is the sequence of    *)
(* its characters.                                                          *)

MaxDiario == 2      \* ids ever generated in one behaviour

\* generateId(): the n-th id generated, taken never to repeat
generateId(n) == <<"i", "d", Digits[n + 1]>>

\* the record the form builds (app.js 647-656, 791-799)
formRecord(formId, generated, numero, status) ==
    [id |-> IF formId # <<>> THEN formId ELSE generateId(generated + 1),
     numero |-> trim(numero), status |-> status]

\* a check that compares the numero with the record's own only
duplicateOfItself(list, rec) ==
    \E k \in 1..Len(list) :
        list[k].numero = rec.numero /\ list[k].id # rec.id /\ list[k] = rec

\* "Check duplicates" (app.js 659-660, 803-804)
duplicate(list, rec) ==
    \E k \in 1..Len(list) : list[k].numero = rec.numero /\ list[k].id # rec.id

\* findIndex(n => n.id === rec.id), 0 when there is none
existingIndex(list, rec) ==
    IF \E k \in 1..Len(list) : list[k].id = rec.id
    THEN CHOOSE k \in 1..Len(list) :
            list[k].id = rec.id /\ \A j \in 1..(k - 1) : list[j].id # rec.id
    ELSE 0

\* "Save" (app.js 667-673, 811-817): replace in place, or push
saved(list, rec) ==
    IF existingIndex(list, rec) > 0
    THEN [list EXCEPT ![existingIndex(list, rec)] = rec]
    ELSE Append(list, rec)

\* showToast: the record kind the message is about, and what it says
Toast(about, text) == [about |-> about, text |-> text]

editNota(id) ==
    /\ \E k \in 1..Len(diario.notas) : diario.notas[k].id = id
    /\ diario' = [diario EXCEPT !.notaId = id]

deleteNota(id) ==
    /\ \E k \in 1..Len(diario.notas) : diario.notas[k].id = id
    /\ diario' = [diario EXCEPT
          !.notas = SelectSeq(@, LAMBDA n : n.id # id),
          !.toast = Toast("Nota", "excluida")]

saveNota(numero, status) ==
    LET nota == formRecord(diario.notaId, diario.generated, numero, status)
        notas == diario.notas
    IN /\ diario.notaId = <<>> => diario.generated < MaxDiario
       /\ diario' =
            IF duplicate(notas, nota)
            THEN [diario EXCEPT !.toast = Toast("Nota", "ja existe")]
            ELSE [diario EXCEPT
                    !.notas = saved(notas, nota),
                    !.notaId = <<>>,
                    !.generated = IF diario.notaId = <<>> THEN @ + 1 ELSE @,
                    !.toast = IF existingIndex(notas, nota) > 0
                              THEN Toast("Nota", "atualizada")
                              ELSE Toast("Nota", "salva")]

editOrdem(id) ==
    /\ \E k \in 1..Len(diario.ordens) : diario.ordens[k].id = id
    /\ diario' = [diario EXCEPT !.ordemId = id]

deleteOrdem(id) ==
    /\ \E k \in 1..Len(diario.ordens) : diario.ordens[k].id = id
    /\ diario' = [diario EXCEPT
          !.ordens = SelectSeq(@, LAMBDA o : o.id # id),
          !.toast = Toast("Ordem", "excluida")]

saveOrdem(numero, status) ==
    LET ordem == formRecord(diario.ordemId, diario.generated, numero, status)
        ordens == diario.ordens
    IN /\ diario.ordemId = <<>> => diario.generated < MaxDiario
       /\ diario' =
            IF duplicate(ordens, ordem)
            THEN [diario EXCEPT !.toast = Toast("Ordem", "ja existe")]
            ELSE [diario EXCEPT
                    !.ordens = saved(ordens, ordem),
                    !.ordemId = <<>>,
                    !.generated = IF diario.ordemId = <<>> THEN @ + 1 ELSE @,
                    !.toast = IF existingIndex(ordens, ordem) > 0
                              THEN Toast("Ordem", "atualizada")
                              ELSE Toast("Ordem", "salva")]

\* what the user types as numero, and the status chosen
Numeros == {<<"1">>, <<" ", "1">>, <<"2">>}
Statuses == {"pendente", "ok"}

appVars == <<ledgerVars, badgeVars, sheetVars, storageVars>>

NextDiario ==
    \/ \E k \in 1..Len(diario.notas) :
          editNota(diario.notas[k].id) /\ UNCHANGED appVars
    \/ \E k \in 1..Len(diario.notas) :
          deleteNota(diario.notas[k].id) /\ UNCHANGED appVars
    \/ \E numero \in Numeros, status \in Statuses :
          saveNota(numero, status) /\ UNCHANGED appVars
    \/ \E k \in 1..Len(diario.ordens) :
          editOrdem(diario.ordens[k].id) /\ UNCHANGED appVars
    \/ \E k \in 1..Len(diario.ordens) :
          deleteOrdem(diario.ordens[k].id) /\ UNCHANGED appVars
    \/ \E numero \in Numeros, status \in Statuses :
          saveOrdem(numero, status) /\ UNCHANGED appVars

SpecDiario == InitIdle /\ [][NextDiario]_vars

\* no two records of the list have the same numero
UniqueNumero(list) ==
    \A a, b \in 1..Len(list) : list[a].numero = list[b].numero => a = b

\* the step of a save on this list: rejected with the list unchanged when
\* the numero is that of a stored record of another id, in place and with
\* the same number of records when the id is stored
SaveStep(before, after, formId, numero, text) ==
    /\ (\E k \in 1..Len(before) :
            before[k].numero = numero /\ before[k].id # formId)
          <=> text = "ja existe"
    /\ text = "ja existe" => after = before
    /\ (text # "ja existe"
        /\ \E k \in 1..Len(before) : before[k].id = formId) =>
          /\ text = "atualizada"
          /\ Len(after) = Len(before)
          /\ \A k \in 1..Len(before) :
                IF before[k].id = formId
                THEN after[k].id = formId /\ after[k].numero = numero
                ELSE after[k] = before[k]

\* C26: in the logbook, after every sequence of saves and deletions from an
\* empty store no two notas and no two ordens have the same numero; a save
\* whose numero is that of a stored record of another id is rejected and
\* leaves the store unchanged, and the save of a stored id replaces that
\* record in place without changing the number of records.
C26_NumeroUnique ==
    [][ /\ UniqueNumero(diario'.notas)
        /\ UniqueNumero(diario'.ordens)
        /\ \A numero \in Numeros, status \in Statuses :
              /\ (diario'.toast.about = "Nota" /\ saveNota(numero, status)) =>
                    SaveStep(diario.notas, diario'.notas,
                             formRecord(diario.notaId, diario.generated,
                                        numero, status).id,
                             trim(numero), diario'.toast.text)
              /\ (diario'.toast.about = "Ordem" /\ saveOrdem(numero, status)) =>
                    SaveStep(diario.ordens, diario'.ordens,
                             formRecord(diario.ordemId, diario.generated,
                                        numero, status).id,
                             trim(numero), diario'.toast.text)
      ]_vars

\* a nota has been rejected for its numero while the store holds two notas,
\* one of them changed by an edit
C26_Witness ==
    /\ diario.toast = Toast("Nota", "ja existe")
    /\ Len(diario.notas) = 2
    /\ diario.notaId # <<>>
    /\ \E k \in 1..2 : diario.notas[k].status = "ok"


-----------------------------------------------------------------------------
(* The ledger and the store *)

Records(seq) == {seq[k] : k \in 1..Len(seq)}

\* C27 as claimed: whenever the sync status is SYNCED and no storage call is
\* in flight, the ledger holds exactly the records the store holds, with the
\* same ids and the same fields.
C27_SyncedMeansEqual ==
    (syncStatus = "SYNCED" /\ ~isLoading /\ inflight = {}) =>
        /\ Records(transactions) = Records(loadTransactions(store))
        /\ Len(transactions) = Len(store)


-----------------------------------------------------------------------------
(* Export and import.  The ledger of the model names a code, a name and a   *)
(* direction by a string and a date by its day number; a sheet holds the    *)
(* characters.                                                              *)

\* the characters of a string of the ledger
Chars(str) ==
    CASE str = "A" -> <<"A">>
      [] str = "B" -> <<"B">>
      [] str = "n" -> <<"n">>
      [] str = "n1" -> <<"n", "1">>
      [] str = "n2" -> <<"n", "2">>
      [] str = "ENTRADA" -> ENTRADA
      [] str = "SAIDA" -> <<"S", "A", "I", "D", "A">>

RECURSIVE Numeral(_)
\* String(n) for a natural number
Numeral(n) ==
    IF n < 10 THEN <<Digits[n + 1]>>
    ELSE Numeral(n \div 10) \o <<Digits[(n % 10) + 1]>>

\* n in decimal, filled with zeros on the left up to this width
Padded(n, width) ==
    [i \in 1..(width - Len(Numeral(n))) |-> "0"] \o Numeral(n)

\* the 'YYYY-MM-DD' of a day number, the form the ledger keeps dates in
toISODate(day) ==
    LET z == day + 719468
        era == z \div 146097
        doe == z - era * 146097
        yoe == (doe - doe \div 1460 + doe \div 36524 - doe \div 146096) \div 365
        doy == doe - (365 * yoe + yoe \div 4 - yoe \div 100)
        mp == (5 * doy + 2) \div 153
        d == doy - (153 * mp + 2) \div 5 + 1
        m == IF mp < 10 THEN mp + 3 ELSE mp - 9
        y == yoe + era * 400 + (IF m <= 2 THEN 1 ELSE 0)
    IN Padded(y, 4) \o <<"-">> \o Padded(m, 2) \o <<"-">> \o Padded(d, 2)

\* exportToExcel: dataToExport, the columns the reconcilers read
exportToExcel(txs) ==
    [k \in 1..Len(txs) |->
        ("ID" :> StringCell(Numeral(txs[k].id)))
        @@ ("Data" :> StringCell(toISODate(txs[k].date)))
        @@ ("Código" :> StringCell(Chars(txs[k].code)))
        @@ ("Item" :> StringCell(Chars(txs[k].name)))
        @@ ("Tipo" :> StringCell(Chars(txs[k].type)))
        @@ ("Quantidade" :> NumberCell(Numeral(txs[k].quantity)))]

\* a record of importFromExcel as a record of the ledger: Transaction has no
\* category_id and no min_stock unless they are set
asTransaction(rec, nowMs) ==
    [id |-> rec.id.v, date |-> rec.date,
     code |-> IF \E c \in Codes : Chars(c) = rec.code
              THEN CHOOSE c \in Codes : Chars(c) = rec.code
              ELSE "?",
     name |-> rec.name, type |-> rec.type,
     quantity |-> rec.quantity.tenths \div 10,
     timestamp |-> nowMs, category_id |-> Undefined, min_stock |-> Undefined]

\* the records importFromExcel gives for the export of a ledger
reimported(txs, nowMs) ==
    LET records == importFromExcel(exportToExcel(txs), DayOf(nowMs)).records
    IN [k \in 1..Len(records) |-> asTransaction(records[k], nowMs)]

\* the aggregates of a code in a ledger: balance, totalIn, totalOut and the
\* number of counts
CodeTotals(txs, c) ==
    IF c \in DOMAIN inventory(txs)
    THEN [balance |-> inventory(txs)[c].balance,
          entries |-> inventory(txs)[c].entries,
          exits |-> inventory(txs)[c].exits,
          contagens |-> inventory(txs)[c].contagens]
    ELSE [balance |-> 0, entries |-> 0, exits |-> 0, contagens |-> 0]

\* C28 as claimed: for every ledger, the records importFromExcel gives for
\* the rows exportToExcel produces from it aggregate to the same balance,
\* totalIn, totalOut and number of counts for every code, and each record
\* keeps its code, direction, quantity and kind.
C28_ExportImportKeepsBalances ==
    LET back == reimported(transactions, now)
    IN /\ Len(back) = Len(transactions)
       /\ \A c \in Codes : CodeTotals(back, c) = CodeTotals(transactions, c)
       /\ \A k \in 1..Len(back) :
             /\ back[k].code = transactions[k].code
             /\ back[k].type = transactions[k].type
             /\ back[k].quantity = transactions[k].quantity
             /\ (back[k].category_id = 2) = (transactions[k].category_id = 2)

\* the part of C28 that the code keeps: every record keeps its code, its
\* direction, its quantity and its date, and a ledger of movements alone
\* keeps its aggregates
C28_MovementsKeepBalances ==
    LET back == reimported(transactions, now)
    IN /\ Len(back) = Len(transactions)
       /\ \A k \in 1..Len(back) :
             /\ back[k].code = transactions[k].code
             /\ back[k].type = transactions[k].type
             /\ back[k].quantity = transactions[k].quantity
             /\ back[k].date = transactions[k].date
             /\ back[k].id = Numeral(transactions[k].id)
       /\ (\A k \in 1..Len(transactions) : transactions[k].category_id # 2) =>
             \A c \in Codes : CodeTotals(back, c) = CodeTotals(transactions, c)


-----------------------------------------------------------------------------
(* MovementForm: the check of an exit against the stock.  initialData is    *)
(* <<>> for a new record and <<t>> when the record t is edited.             *)

RECURSIVE SumOf(_, _)
\* reduce((acc, curr) => acc + curr.quantity, 0) over the first k records
SumOf(history, k) ==
    IF k = 0 THEN 0 ELSE SumOf(history, k - 1) + history[k].quantity

\* currentStock as the effect on [code, transactions, initialData] sets it
\* (MovementForm 83-95)
currentStock(txs, code, initialData) ==
    LET history == SelectSeq(txs, LAMBDA t :
                       t.code = code /\ operationAffectsStock(t.category_id))
        ent == SelectSeq(history, LAMBDA t : t.type = "ENTRADA")
        sai == SelectSeq(history, LAMBDA t : t.type = "SAIDA")
        adjust == IF /\ initialData # <<>>
                     /\ initialData[1].code = code
                     /\ operationAffectsStock(initialData[1].category_id)
                  THEN IF initialData[1].type = "ENTRADA"
                       THEN 0 - initialData[1].quantity
                       ELSE initialData[1].quantity
                  ELSE 0
    IN (SumOf(ent, Len(ent)) - SumOf(sai, Len(sai))) + adjust

\* availableStock of handleSubmit (MovementForm 221-223)
availableStock(txs, code, initialData) ==
    IF initialData # <<>> /\ initialData[1].type = "SAIDA"
    THEN currentStock(txs, code, initialData) + initialData[1].quantity
    ELSE currentStock(txs, code, initialData)

\* an availableStock that is currentStock
availableStockOnce(txs, code, initialData) ==
    currentStock(txs, code, initialData)

\* handleSubmit ends at "Saldo insuficiente" (MovementForm 217-229)
insufficient(txs, f, initialData) ==
    /\ f.category_id # 2
    /\ f.type = "SAIDA"
    /\ f.quantity > availableStock(txs, f.code, initialData)

\* handleUpdateTransaction (App.tsx 242-258) with its call to the store
handleUpdateTransaction(id, updatedTx, ok) ==
    /\ ~isLoading
    /\ IF ok
       THEN /\ transactions' = [k \in 1..Len(transactions) |->
                                   IF transactions[k].id = id
                                   THEN updatedTx @@ transactions[k]
                                   ELSE transactions[k]]
            /\ syncStatus' = "SYNCED"
       ELSE /\ syncStatus' = "OFFLINE"
            /\ UNCHANGED transactions
    /\ UNCHANGED <<dateFilter, isLoading, now, nextId>>

\* handleSubmit (MovementForm 213-250): nothing happens when the stock is
\* insufficient, else the record goes to onUpdate or to onAdd
handleSubmit(f, initialData, ok) ==
    /\ ~isLoading
    /\ IF insufficient(transactions, f, initialData)
       THEN UNCHANGED ledgerVars
       ELSE IF initialData # <<>>
       THEN handleUpdateTransaction(initialData[1].id, formData(f), ok)
       ELSE handleAddTransaction(formData(f), ok)

\* what the user may enter in the form
FormInputs ==
    TxInputs({"A"}, Types, {1, 2, 3}, {1, 2}, {Undefined}, {1}, {"n"})

NextForm ==
    \/ /\ isLoading
       /\ loadData(<<>>)
       /\ UNCHANGED <<badgeVars, sheetVars, diario, storageVars>>
    \/ \E f \in FormInputs, ok \in BOOLEAN :
          handleSubmit(f, <<>>, ok)
          /\ UNCHANGED <<badgeVars, sheetVars, diario, storageVars>>
    \/ \E f \in FormInputs, k \in 1..Len(transactions), ok \in BOOLEAN :
          handleSubmit(f, <<transactions[k]>>, ok)
          /\ UNCHANGED <<badgeVars, sheetVars, diario, storageVars>>

SpecForm == InitIdle /\ [][NextForm]_vars

\* the balance of a code over the stock-affecting records other than the
\* record being edited
BalanceWithout(txs, c, initialData) ==
    LET others == {i \in RecordsOf(txs, c) :
                      /\ txs[i].category_id # 2
                      /\ initialData # <<>> => txs[i].id # initialData[1].id}
    IN SumQuantity(txs, {i \in others : txs[i].type = "ENTRADA"})
       - SumQuantity(txs, {i \in others : txs[i].type = "SAIDA"})

\* C29 as claimed: the form rejects a non-COUNT OUT submission exactly when
\* its quantity exceeds the balance of the code over the stock-affecting
\* records other than the record being edited, for new records and for
\* edits of an IN or OUT record alike.
C29_RejectsExactlyAboveBalance ==
    \A f \in FormInputs :
        \A initialData \in {<<>>} \cup {<<transactions[k]>> :
                                          k \in 1..Len(transactions)} :
            insufficient(transactions, f, initialData)
               <=> /\ f.category_id # 2
                   /\ f.type = "SAIDA"
                   /\ f.quantity
                         > BalanceWithout(transactions, f.code, initialData)

\* the part of C29 that the code keeps: the same for new records and for
\* edits of a record that is no exit
C29_NewRecordsChecked ==
    \A f \in FormInputs :
        \A initialData \in {<<>>} \cup {<<transactions[k]>> :
                                          k \in 1..Len(transactions)} :
            (initialData = <<>> \/ initialData[1].type # "SAIDA") =>
               (insufficient(transactions, f, initialData)
                  <=> /\ f.category_id # 2
                      /\ f.type = "SAIDA"
                      /\ f.quantity
                            > BalanceWithout(transactions, f.code, initialData))

\* the balance of no code is below 0
C29_BalanceNeverNegative ==
    \A c \in DOMAIN inventory(transactions) :
        inventory(transactions)[c].balance >= 0


-----------------------------------------------------------------------------
(* InventoryList and StockBalanceList: the status filter of the lists.  The *)
(* search term is empty, so every item matches the search.                  *)

FilterStatuses == {"ALL", "OK", "CRITICAL", "NEGATIVE"}

\* matchesStatus of filteredInventory (InventoryList.tsx 91-98)
matchesStatus(it, filterStatus) ==
    IF filterStatus = "OK"
    THEN it.balance > 0 /\ (it.min_stock = 0 \/ it.balance > it.min_stock)
    ELSE IF filterStatus = "CRITICAL"
    THEN it.min_stock > 0 /\ it.balance > 0 /\ it.balance <= it.min_stock
    ELSE IF filterStatus = "NEGATIVE"
    THEN it.balance < 0
    ELSE TRUE

\* the status part of filteredStock (StockBalanceList.tsx 82-85)
matchesStockStatus(it, filterStatus) ==
    IF filterStatus = "NEGATIVE" THEN it.balance < 0
    ELSE IF filterStatus = "CRITICAL"
    THEN it.min_stock > 0 /\ it.balance <= it.min_stock /\ it.balance >= 0
    ELSE IF filterStatus = "OK" THEN it.balance > it.min_stock
    ELSE TRUE

\* filteredInventory (InventoryList.tsx 85-101), each row with its badge
filteredInventory(inv, filterStatus) ==
    LET rows == SelectSeq(inv, LAMBDA it : matchesStatus(it, filterStatus))
    IN [k \in 1..Len(rows) |->
           [item |-> rows[k], badge |-> getStatusBadge(rows[k])]]

\* filteredStock (StockBalanceList.tsx 73-87), each row with its badge
filteredStock(stockByAddress, filterStatus) ==
    LET rows == SelectSeq(stockByAddress,
                          LAMBDA it : matchesStockStatus(it, filterStatus))
    IN [k \in 1..Len(rows) |->
           [item |-> rows[k], badge |-> getStatusBadgeColor(rows[k])]]

\* setFilterStatus of InventoryList (InventoryList.tsx 14, 234-236) and the
\* render that follows it
setInventoryFilter(filterStatus) ==
    /\ listed' = [list |-> "InventoryList", filterStatus |-> filterStatus,
                  rows |-> filteredInventory(<<item>>, filterStatus)]
    /\ UNCHANGED <<item, badge, sheetVars, diario, ledgerVars, storageVars>>

\* setFilterStatus of StockBalanceList (StockBalanceList.tsx 21, 120-122)
\* and the render that follows it
setStockFilter(filterStatus) ==
    /\ listed' = [list |-> "StockBalanceList", filterStatus |-> filterStatus,
                  rows |-> filteredStock(<<item>>, filterStatus)]
    /\ UNCHANGED <<item, badge, sheetVars, diario, ledgerVars, storageVars>>

NextFilter ==
    \/ \E filterStatus \in FilterStatuses : setInventoryFilter(filterStatus)
    \/ \E filterStatus \in FilterStatuses : setStockFilter(filterStatus)

SpecFilter == InitBadge /\ [][NextFilter]_vars

\* the filter that names the status a badge shows
StatusShown(it) ==
    IF getStatusBadge(it) = "Negativo" THEN "NEGATIVE"
    ELSE IF getStatusBadge(it) = "Critico" THEN "CRITICAL"
    ELSE "OK"

\* the same from the colour of the badge of StockBalanceList
StatusColoured(it) ==
    IF getStatusBadgeColor(it) = "text-red-700" THEN "NEGATIVE"
    ELSE IF getStatusBadgeColor(it) = "text-amber-700" THEN "CRITICAL"
    ELSE "OK"

\* C30 as claimed: under the filter OK, CRITICAL or NEGATIVE a list shows the
\* item if and only if getStatusBadge shows that status for it, in both
\* lists and for every item, those with balance 0 included.
C30_FilterAgreesWithBadge ==
    listed.filterStatus \in {"OK", "CRITICAL", "NEGATIVE"} =>
        (listed.rows # <<>>
           <=> listed.filterStatus
                  = IF listed.list = "InventoryList"
                    THEN StatusShown(item) ELSE StatusColoured(item))

\* the part of C30 that the code keeps: an item a status filter shows has
\* the badge of that status, and items with a balance other than 0 are
\* shown by exactly the filter of their badge.
C30_ShownAgreesWithBadge ==
    listed.filterStatus \in {"OK", "CRITICAL", "NEGATIVE"} =>
        LET status == IF listed.list = "InventoryList"
                      THEN StatusShown(item) ELSE StatusColoured(item)
        IN /\ listed.rows # <<>> =>
                 /\ listed.filterStatus = status
                 /\ listed.rows[1].item = item
           /\ (item.balance # 0 /\ listed.filterStatus = status)
                 => listed.rows # <<>>

====
